---- MODULE Spec2Model ----
(***************************************************************************)
(* Model of the regeneration orchestrator of the code validation pipeline  *)
(* (src/validation_pipeline.js, class ValidationPipeline).                 *)
(*                                                                         *)
(* JavaScript strings are sequences of one-character strings, so that      *)
(* trim() and toLowerCase() are computed.  A JavaScript value is a record  *)
(* [type, val].  The code between two awaits runs to completion, so one    *)
(* action is one such stretch: Start runs execute() up to its first        *)
(* await, GeneratorSettles resumes it with the outcome of the outstanding  *)
(* generator call and runs it up to the next await or to its return.       *)
(***************************************************************************)
EXTENDS Integers, Sequences, FiniteSets, TLC

(***************************************************************************)
(* Bounds of the model.                                                    *)
(***************************************************************************)
MaxCeiling == 3   \* largest attempt ceiling given to setMaxAttempts

\* the calls of execute
Runs == {1, 2}

\* the context objects: 0 is the caller's, r the {} that call r defaults to
ContextObjects == {0} \cup Runs

(***************************************************************************)
(* JavaScript values.                                                      *)
(***************************************************************************)
Undefined == [type |-> "undefined", val |-> <<>>]
NumberVal == [type |-> "number", val |-> <<>>]      \* a non-zero number
ObjectVal == [type |-> "object", val |-> <<>>]      \* a plain object
FunctionVal == [type |-> "function", val |-> <<>>]
Str(s) == [type |-> "string", val |-> s]

\* !v
Falsy(v) == v.type = "undefined" \/ (v.type = "string" /\ v.val = <<>>)

\* the characters of a string literal, as a sequence of one-character strings
Chars(str) == [i \in 1..Len(str) |-> SubSeq(str, i, i)]

UpperCase == Chars("ABCDEFGHIJKLMNOPQRSTUVWXYZ")
LowerCase == Chars("abcdefghijklmnopqrstuvwxyz")
Digits == Chars("0123456789")

\* white space (\s)
IsSpace(c) == c \in {" ", "\t", "\n", "\r"}

RECURSIVE TrimStart(_)
TrimStart(s) ==
    IF s # <<>> /\ IsSpace(Head(s)) THEN TrimStart(Tail(s)) ELSE s

RECURSIVE TrimEnd(_)
TrimEnd(s) ==
    IF s # <<>> /\ IsSpace(s[Len(s)]) THEN TrimEnd(SubSeq(s, 1, Len(s) - 1)) ELSE s

\* String.prototype.trim
Trim(s) == TrimEnd(TrimStart(s))

LowerChar(c) ==
    IF \E k \in 1..26 : UpperCase[k] = c
    THEN LowerCase[CHOOSE k \in 1..26 : UpperCase[k] = c]
    ELSE c

\* String.prototype.toLowerCase
ToLowerCase(s) == [i \in 1..Len(s) |-> LowerChar(s[i])]

(***************************************************************************)
(* constructor                                                             *)
(***************************************************************************)
DefaultMaxAttempts == 3

supportedLanguages ==
    { <<"h", "t", "m", "l">>,
      <<"c", "s", "s">>,
      <<"j", "a", "v", "a", "s", "c", "r", "i", "p", "t">>,
      <<"j", "s">>,
      <<"s", "o", "l", "i", "d", "i", "t", "y">> }

\* the keys of this.validators
validators == supportedLanguages

(***************************************************************************)
(* validateInput without its check of codeGenerator.                       *)
(***************************************************************************)
validateInputNoGeneratorCheck(options) ==
    LET problemStatement == options.problemStatement
        language == options.language
    IN  IF Falsy(problemStatement) \/ problemStatement.type # "string"
           \/ Len(Trim(problemStatement.val)) = 0
        THEN [isValid |-> FALSE,
              error |-> <<"Problem statement must be a non-empty string">>]
        ELSE IF Falsy(language) \/ language.type # "string"
        THEN [isValid |-> FALSE,
              error |-> <<"Language must be specified as a string">>]
        ELSE IF ToLowerCase(language.val) \notin supportedLanguages
        THEN [isValid |-> FALSE,
              error |-> <<"Unsupported language:", language.val>>]
        ELSE [isValid |-> TRUE]

(***************************************************************************)
(* validateInput(options): the object it returns.                          *)
(***************************************************************************)
validateInput(options) ==
    LET problemStatement == options.problemStatement
        language == options.language
        codeGenerator == options.codeGenerator
    IN  IF Falsy(problemStatement) \/ problemStatement.type # "string"
           \/ Len(Trim(problemStatement.val)) = 0
        THEN [isValid |-> FALSE,
              error |-> <<"Problem statement must be a non-empty string">>]
        ELSE IF Falsy(language) \/ language.type # "string"
        THEN [isValid |-> FALSE,
              error |-> <<"Language must be specified as a string">>]
        ELSE IF ToLowerCase(language.val) \notin supportedLanguages
        THEN [isValid |-> FALSE,
              error |-> <<"Unsupported language:", language.val>>]
        ELSE IF Falsy(codeGenerator) \/ codeGenerator.type # "function"
        THEN [isValid |-> FALSE,
              error |-> <<"Code generator must be a function">>]
        ELSE [isValid |-> TRUE]

Min(S) == CHOOSE k \in S : \A m \in S : k <= m
Max(S) == CHOOSE k \in S : \A m \in S : k >= m

(***************************************************************************)
(* The numbers of JavaScript are IEEE-754 doubles: every quotient, product *)
(* and sum is rounded to 53 significant bits, ties to even.  A double that *)
(* is not zero is m * 2^e with 2^52 <= m < 2^53; m is a natural number     *)
(* written in limbs of LimbBits bits, lowest limb first, the highest limb  *)
(* not zero.  Only numbers >= 0 occur.                                     *)
(***************************************************************************)
LimbBits == 13
LimbBase == 8192
MantissaBits == 53
FractionLimbCount == 6

RECURSIVE BigOf(_)
BigOf(n) == IF n = 0 THEN <<>> ELSE <<n % LimbBase>> \o BigOf(n \div LimbBase)

RECURSIVE BigNorm(_)
BigNorm(x) ==
    IF x # <<>> /\ x[Len(x)] = 0 THEN BigNorm(SubSeq(x, 1, Len(x) - 1)) ELSE x

LimbAt(x, i) == IF i \in 1..Len(x) THEN x[i] ELSE 0

RECURSIVE BigAddFrom(_, _, _, _)
BigAddFrom(x, y, i, carry) ==
    IF i > Len(x) /\ i > Len(y) THEN BigOf(carry)
    ELSE <<(LimbAt(x, i) + LimbAt(y, i) + carry) % LimbBase>>
         \o BigAddFrom(x, y, i + 1,
                       (LimbAt(x, i) + LimbAt(y, i) + carry) \div LimbBase)

BigAdd(x, y) == BigAddFrom(x, y, 1, 0)

\* x * c for a limb c
RECURSIVE BigTimesFrom(_, _, _, _)
BigTimesFrom(x, c, i, carry) ==
    IF i > Len(x) THEN BigOf(carry)
    ELSE <<(x[i] * c + carry) % LimbBase>>
         \o BigTimesFrom(x, c, i + 1, (x[i] * c + carry) \div LimbBase)

RECURSIVE BigMulFrom(_, _, _)
BigMulFrom(x, y, i) ==
    IF i > Len(y) THEN <<>>
    ELSE BigAdd([k \in 1..(i - 1) |-> 0]
                \o BigNorm(BigTimesFrom(x, y[i], 1, 0)),
                BigMulFrom(x, y, i + 1))

RECURSIVE BitLength(_)
BitLength(n) == IF n = 0 THEN 0 ELSE 1 + BitLength(n \div 2)

BigBits(x) ==
    IF x = <<>> THEN 0 ELSE LimbBits * (Len(x) - 1) + BitLength(x[Len(x)])

\* x * 2^k
BigShiftLeft(x, k) ==
    IF x = <<>> THEN <<>>
    ELSE [i \in 1..(k \div LimbBits) |-> 0]
         \o BigNorm(BigTimesFrom(x, 2 ^ (k % LimbBits), 1, 0))

RECURSIVE BigHalveFrom(_, _, _)
BigHalveFrom(x, s, i) ==
    IF i > Len(x) THEN <<>>
    ELSE <<(x[i] \div (2 ^ s))
           + (LimbAt(x, i + 1) % (2 ^ s)) * (2 ^ (LimbBits - s))>>
         \o BigHalveFrom(x, s, i + 1)

\* x divided by 2^k, the remainder dropped
BigShiftRight(x, k) ==
    BigNorm(BigHalveFrom(x, k % LimbBits, k \div LimbBits + 1))

Zero == [m |-> <<>>, e |-> 0]

\* the element of a set of one element: { F(x) : x \in { v } } is F of the
\* value v, which is how the results held in a const are used below
The(S) == CHOOSE x \in S : TRUE

\* x * 2^e rounded once the 53 highest bits (q) of x, and its bits from the
\* one below them on (h), are known: up when the bit below is set and either
\* a lower bit is set or q is odd
RoundedFrom(x, e, k, q, h) ==
    IF h # <<>> /\ h[1] % 2 = 1
       /\ (BigShiftLeft(h, k - 1) # x \/ q[1] % 2 = 1)
    THEN The({ IF BigBits(up) > MantissaBits
               THEN [m |-> BigShiftRight(up, 1), e |-> e + k + 1]
               ELSE [m |-> up, e |-> e + k] :
               up \in { BigAdd(q, <<1>>) } })
    ELSE [m |-> q, e |-> e + k]

\* the double nearest to x * 2^e, ties to even
RoundToDouble(x, e) ==
    IF x = <<>> THEN Zero
    ELSE The({ IF k <= 0
               THEN [m |-> BigShiftLeft(x, 0 - k), e |-> e + k]
               ELSE The({ RoundedFrom(x, e, k, q, h) :
                          q \in { BigShiftRight(x, k) },
                          h \in { BigShiftRight(x, k - 1) } }) :
               k \in { BigBits(x) - MantissaBits } })

\* the limbs of r / d after the point, lowest first, below them one limb
\* that is 1 when a remainder is left
RECURSIVE FractionLimbs(_, _, _)
FractionLimbs(r, d, count) ==
    IF count = 0 THEN << IF r = 0 THEN 0 ELSE 1 >>
    ELSE FractionLimbs((r * LimbBase) % d, d, count - 1)
         \o << (r * LimbBase) \div d >>

\* n / d for integers 0 <= n < LimbBase and 0 < d < LimbBase; it is also the
\* number a decimal literal n/d denotes (0.3 is NumberOf(3, 10))
NumberOf(n, d) ==
    The({ RoundToDouble(x, 0 - LimbBits * (FractionLimbCount + 1)) :
          x \in { BigNorm(FractionLimbs(n % d, d, FractionLimbCount)
                          \o << n \div d >>) } })

\* x * y
Times(x, y) ==
    IF x.m = <<>> \/ y.m = <<>> THEN Zero
    ELSE The({ RoundToDouble(p, x.e + y.e) : p \in { BigNorm(BigMulFrom(x.m, y.m, 1)) } })

\* x + y
Plus(x, y) ==
    IF x.m = <<>> THEN y
    ELSE IF y.m = <<>> THEN x
    ELSE The({ RoundToDouble(s, Min({x.e, y.e})) :
               s \in { BigAdd(BigShiftLeft(x.m, x.e - Min({x.e, y.e})),
                              BigShiftLeft(y.m, y.e - Min({x.e, y.e}))) } })

\* x < y
LessThan(x, y) ==
    IF y.m = <<>> THEN FALSE
    ELSE IF x.m = <<>> THEN TRUE
    ELSE \/ x.e < y.e
         \/ /\ x.e = y.e
            /\ \E i \in 1..Len(x.m) :
                   /\ x.m[i] < y.m[i]
                   /\ \A j \in (i + 1)..Len(x.m) : x.m[j] = y.m[j]

(***************************************************************************)
(* The collaborators.  Their behaviour is outside the orchestrator: each   *)
(* call settles in one of the ways listed here.                            *)
(***************************************************************************)
\* what a call of options.codeGenerator(context) can do
GeneratorOutcomes ==
    { [kind |-> "throws", val |-> Undefined, msg |-> <<"Generator failed">>],
      [kind |-> "rejects", val |-> Undefined, msg |-> <<"Generator rejected">>] }
    \cup { [kind |-> "returns", val |-> v, msg |-> <<>>] :
             v \in { NumberVal, Str(<<>>), Str(<<" ">>),
                     Str(<<"a">>), Str(<<" ", "b", " ">>) } }

\* what a call of validator.validate(code) can do
SyntaxOutcomes ==
    { [kind |-> "returns", msg |-> <<>>,
       result |-> [isValid |-> TRUE, errors |-> <<>>, warnings |-> <<>>]],
      [kind |-> "returns", msg |-> <<>>,
       result |-> [isValid |-> FALSE, errors |-> << <<"Unexpected token">> >>,
                   warnings |-> <<>>]],
      [kind |-> "returns", msg |-> <<>>, result |-> Undefined],
      [kind |-> "raises", msg |-> <<"parser crashed">>, result |-> Undefined] }

\* result.analysis of SelfReflection.analyze before anything is stored in
\* it; completed: the try block ran to its end
EmptyAnalysis ==
    [completed |-> FALSE, problemKeywords |-> <<>>, codeFeatures |-> <<>>,
     alignment |-> <<>>]

\* the catch clause leaves addressesProblem as it was initialized
analysisFailedStillTrue(analysis, message) ==
    [addressesProblem |-> TRUE,
     confidence |-> Zero,
     issues |-> << Chars("Self-reflection analysis error: ") \o message >>,
     suggestions |-> <<>>,
     analysis |-> analysis]

\* the catch clause does not record the reason
analysisFailedSilent(analysis, message) ==
    [addressesProblem |-> FALSE,
     confidence |-> Zero,
     issues |-> <<>>,
     suggestions |-> <<>>,
     analysis |-> analysis]

\* the catch clause of SelfReflection.analyze
analysisFailed(analysis, message) ==
    [addressesProblem |-> FALSE,
     confidence |-> Zero,
     issues |-> << Chars("Self-reflection analysis error: ") \o message >>,
     suggestions |-> <<>>,
     analysis |-> analysis]

\* the verdict of SelfReflection.analyze when confidence >= 0.6
AlignedVerdict ==
    [addressesProblem |-> TRUE, confidence |-> NumberOf(8, 10),
     issues |-> <<>>, suggestions |-> <<>>]

\* the verdict of SelfReflection.analyze when confidence < 0.6
MisalignedVerdict ==
    [addressesProblem |-> FALSE, confidence |-> NumberOf(3, 10),
     issues |-> <<"Missing implementation for required actions">>,
     suggestions |-> <<"Implement the missing functionality">>]

\* the verdict of SelfReflection.analyze when its analysis raised
AnalysisErrorVerdict ==
    analysisFailed(
        EmptyAnalysis,
        Chars("Cannot read properties of undefined (reading 'toLowerCase')"))

\* what a call of SelfReflection.analyze can do
ScorerOutcomes ==
    { [kind |-> "returns", msg |-> <<>>, result |-> v] :
        v \in { AlignedVerdict, MisalignedVerdict, AnalysisErrorVerdict } }
    \cup { [kind |-> "raises", msg |-> <<"scorer crashed">>,
            result |-> Undefined] }

(***************************************************************************)
(* generateCode(codeGenerator, context), resumed with the outcome of the   *)
(* generator call: the code it returns or the error it throws.             *)
(***************************************************************************)
\* without the check of what the generator returned
generateCodeUnchecked(out) ==
    IF out.kind # "returns"
    THEN [threw |-> TRUE, code |-> <<>>,
          msg |-> <<"Code generation failed:">> \o out.msg]
    ELSE IF out.val.type # "string"
    THEN [threw |-> FALSE, code |-> <<"1">>, msg |-> <<>>]
    ELSE [threw |-> FALSE, code |-> Trim(out.val.val), msg |-> <<>>]

generateCode(out) ==
    IF out.kind # "returns"
    THEN [threw |-> TRUE, code |-> <<>>,
          msg |-> <<"Code generation failed:">> \o out.msg]
    ELSE IF Falsy(out.val) \/ out.val.type # "string"
    THEN [threw |-> TRUE, code |-> <<>>,
          msg |-> <<"Code generation failed:",
                    "Code generator must return a string">>]
    ELSE [threw |-> FALSE, code |-> Trim(out.val.val), msg |-> <<>>]

(***************************************************************************)
(* validateSyntax(code, language): the result it returns or the error it   *)
(* throws, given what the validator does.                                  *)
(***************************************************************************)
\* the message of an error of the validator is `Validation error: ${message}`
\* and errors holds that one message
ValidationError(msg) ==
    [isValid |-> FALSE, errors |-> << <<"Validation error:">> \o msg >>,
     warnings |-> <<>>]

\* without the try around validator.validate(code)
validateSyntaxUncaught(language, so) ==
    IF ToLowerCase(language) \notin validators
    THEN [threw |-> TRUE, result |-> Undefined,
          msg |-> <<"No validator found for language:", language>>]
    ELSE IF so.kind = "raises"
    THEN [threw |-> TRUE, result |-> Undefined, msg |-> so.msg]
    ELSE [threw |-> FALSE, msg |-> <<>>, result |-> so.result]

validateSyntax(language, so) ==
    IF ToLowerCase(language) \notin validators
    THEN [threw |-> TRUE, result |-> Undefined,
          msg |-> <<"No validator found for language:", language>>]
    ELSE IF so.kind = "raises"
    THEN [threw |-> FALSE, msg |-> <<>>, result |-> ValidationError(so.msg)]
    ELSE [threw |-> FALSE, msg |-> <<>>, result |-> so.result]

(***************************************************************************)
(* performSelfReflection(problemStatement, code, language)                 *)
(***************************************************************************)
performSelfReflection(sc) ==
    IF sc.kind = "raises"
    THEN [addressesProblem |-> FALSE, confidence |-> Zero,
          issues |-> <<"Self-reflection failed:">> \o sc.msg,
          suggestions |-> <<>>]
    ELSE sc.result

\* the verdict is not looked at
verdictIgnored(reflectionResult) == "accepted"

\* if (!reflectionResult.addressesProblem)
verdictKind(reflectionResult) ==
    IF reflectionResult.addressesProblem THEN "accepted" ELSE "misaligned"

(***************************************************************************)
(* The try block of one iteration of execute's loop, from the await of     *)
(* generateCode on: how it ends, given what the generator call (out), the  *)
(* validator (so) and the scorer (sc) do.                                  *)
(*   threw         an error reached the catch clause                       *)
(*   syntaxInvalid !syntaxValidation.isValid                               *)
(*   misaligned    !reflectionResult.addressesProblem                      *)
(*   accepted      finalResult is built                                    *)
(* validatorCalled, validatorRaised and scorerCalled record whether        *)
(* validator.validate and SelfReflection.analyze were called in the        *)
(* attempt and whether validator.validate raised; generatorOutcome is what  *)
(* the generator call of the attempt did.                                  *)
(***************************************************************************)
tryBlock(language, out, so, sc) ==
    LET gen == generateCode(out)
        syn == validateSyntax(language, so)
        reflectionResult == performSelfReflection(sc)
        called == ToLowerCase(language) \in validators
        raised == called /\ so.kind = "raises"
        Threw(m, synCalled) ==
            [kind |-> "threw", code |-> <<>>, syntaxValidation |-> Undefined,
             reflectionResult |-> Undefined, msg |-> m,
             generatorOutcome |-> out, validatorCalled |-> synCalled,
             validatorRaised |-> synCalled /\ raised, scorerCalled |-> FALSE]
    IN  IF gen.threw THEN Threw(gen.msg, FALSE)
        ELSE IF gen.code = <<>>
        THEN Threw(<<"Code generator returned empty code">>, FALSE)
        ELSE IF syn.threw THEN Threw(syn.msg, called)
        ELSE IF syn.result = Undefined
        THEN Threw(<<"Cannot read properties of undefined">>, TRUE)
        ELSE IF ~syn.result.isValid
        THEN [kind |-> "syntaxInvalid", code |-> gen.code,
              syntaxValidation |-> syn.result,
              reflectionResult |-> Undefined, msg |-> <<>>,
              generatorOutcome |-> out,
              validatorCalled |-> TRUE, validatorRaised |-> raised,
              scorerCalled |-> FALSE]
        ELSE [kind |-> verdictKind(reflectionResult),
              code |-> gen.code, syntaxValidation |-> syn.result,
              reflectionResult |-> reflectionResult, msg |-> <<>>,
              generatorOutcome |-> out,
              validatorCalled |-> TRUE, validatorRaised |-> raised,
              scorerCalled |-> TRUE]

(***************************************************************************)
(* SelfReflection (src/components/self_reflection.js).  Texts are          *)
(* sequences of one-character strings.                                     *)
(***************************************************************************)

\* s[i], or no character when i is outside s
CharAt(s, i) == IF i \in 1..Len(s) THEN s[i] ELSE ""

\* String.prototype.includes
Includes(s, w) ==
    \E i \in 0..(Len(s) - Len(w)) : SubSeq(s, i + 1, i + Len(w)) = w

\* w occurs in s at index i
StartsAt(s, i, w) ==
    i >= 1 /\ i + Len(w) - 1 <= Len(s) /\ SubSeq(s, i, i + Len(w) - 1) = w

\* Array.prototype.join
RECURSIVE Join(_, _)
Join(list, sep) ==
    IF list = <<>> THEN <<>>
    ELSE IF Len(list) = 1 THEN list[1]
    ELSE list[1] \o sep \o Join(Tail(list), sep)

\* String.prototype.split with a one-character separator
RECURSIVE Split(_, _)
Split(s, sep) ==
    LET at == { k \in 1..Len(s) : s[k] = sep }
    IN  IF at = {} THEN <<s>>
        ELSE <<SubSeq(s, 1, Min(at) - 1)>>
             \o Split(SubSeq(s, Min(at) + 1, Len(s)), sep)

(***************************************************************************)
(* Regular expressions.  The character classes, and the end of the longest *)
(* run of characters of a class that starts at index i (i - 1 when the run *)
(* is empty): the quantifiers * and + of the patterns below are greedy and *)
(* each is followed by a character outside its class, so the longest run   *)
(* is the only one a match can use.                                        *)
(***************************************************************************)
WordChars ==
    {"_"} \cup { UpperCase[k] : k \in 1..26 }
    \cup { LowerCase[k] : k \in 1..26 } \cup { Digits[k] : k \in 1..10 }

IsWordChar(c) == c \in WordChars

IsQuote(c) == c = "'" \/ c = "\""

\* c is in the character class written class in the patterns
InClass(c, class) ==
    CASE class = "\\s" -> IsSpace(c)
      [] class = "\\w" -> IsWordChar(c)
      [] class = "[\\w-]" -> IsWordChar(c) \/ c = "-"
      [] class = "." -> c # "\n" /\ c # "\r"
      [] class = "[^'\"]" -> ~IsQuote(c)
      [] class = "[^)]" -> c # ")"
      [] class = "[^>]" -> c # ">"
      [] class = "[^.!?]" -> c \notin {".", "!", "?"}

RECURSIVE RunEnd(_, _, _)
RunEnd(s, i, class) ==
    IF i <= Len(s) /\ InClass(s[i], class) THEN RunEnd(s, i + 1, class)
    ELSE i - 1

\* String.prototype.match with a global pattern: end[i] is the index where
\* the match that starts at i ends, 0 when the pattern does not match at i
RECURSIVE matchesFrom(_, _, _)
matchesFrom(s, end, i) ==
    LET starts == { j \in i..Len(s) : end[j] # 0 }
    IN  IF starts = {} THEN <<>>
        ELSE The({ <<SubSeq(s, j, end[j])>> \o matchesFrom(s, end, end[j] + 1) :
                   j \in { Min(starts) } })

matchAll(s, end, i) ==
    The({ matchesFrom(s, ends, i) : ends \in { SubSeq(end, 1, Len(s)) } })

\* /kw\s+(\w+)/ at index i
KeywordName(s, i, kw) ==
    LET sp == RunEnd(s, i + Len(kw), "\\s")
        w == RunEnd(s, sp + 1, "\\w")
    IN  IF StartsAt(s, i, kw) /\ sp >= i + Len(kw) /\ w > sp THEN w ELSE 0

(***************************************************************************)
(* extractProblemKeywords(problemStatement)                                *)
(***************************************************************************)
actionWords ==
    << Chars("create"), Chars("build"), Chars("make"), Chars("generate"),
       Chars("implement"), Chars("develop"), Chars("calculate"),
       Chars("compute"), Chars("process"), Chars("parse"), Chars("validate"),
       Chars("verify"), Chars("sort"), Chars("filter"), Chars("search"),
       Chars("find"), Chars("display"), Chars("show"), Chars("render"),
       Chars("save"), Chars("store"), Chars("load"), Chars("fetch"),
       Chars("retrieve"), Chars("update"), Chars("delete"), Chars("connect"),
       Chars("authenticate"), Chars("authorize"), Chars("handle"),
       Chars("manage"), Chars("optimize"), Chars("compress"),
       Chars("encrypt"), Chars("decode"), Chars("transform") >>

techKeywords ==
    << Chars("html"), Chars("css"), Chars("javascript"), Chars("react"),
       Chars("vue"), Chars("angular"), Chars("node"), Chars("express"),
       Chars("mongodb"), Chars("mysql"), Chars("postgresql"), Chars("api"),
       Chars("rest"), Chars("graphql"), Chars("websocket"), Chars("json"),
       Chars("xml"), Chars("csv"), Chars("database"), Chars("blockchain"),
       Chars("solidity"), Chars("ethereum"), Chars("smart contract"),
       Chars("web3"), Chars("frontend"), Chars("backend"),
       Chars("fullstack"), Chars("responsive"), Chars("mobile") >>

uiKeywords ==
    << Chars("button"), Chars("form"), Chars("input"), Chars("dropdown"),
       Chars("menu"), Chars("modal"), Chars("popup"), Chars("table"),
       Chars("list"), Chars("grid"), Chars("card"), Chars("navbar"),
       Chars("sidebar"), Chars("footer"), Chars("header"), Chars("layout"),
       Chars("responsive"), Chars("mobile"), Chars("desktop") >>

businessKeywords ==
    << Chars("user"), Chars("customer"), Chars("admin"), Chars("account"),
       Chars("profile"), Chars("login"), Chars("registration"),
       Chars("payment"), Chars("order"), Chars("product"), Chars("service"),
       Chars("notification"), Chars("email"), Chars("report"),
       Chars("analytics"), Chars("dashboard") >>

\* the alternatives of /(should|must|need to|required to|has to)[^.!?]*/g
requirementWords ==
    << Chars("should"), Chars("must"), Chars("need to"),
       Chars("required to"), Chars("has to") >>

\* that pattern at index i
RequirementEnd(s, i) ==
    LET alts == { n \in 1..Len(requirementWords) :
                    StartsAt(s, i, requirementWords[n]) }
    IN  IF alts = {} THEN 0
        ELSE RunEnd(s, i + Len(requirementWords[Min(alts)]), "[^.!?]")

extractProblemKeywords(problemStatement) ==
    LET text == ToLowerCase(problemStatement)
        In(word) == Includes(text, word)
    IN  [actions |-> SelectSeq(actionWords, In),
         entities |-> SelectSeq(uiKeywords, In)
                      \o SelectSeq(businessKeywords, In),
         requirements |-> matchAll(text,
                 [i \in 1..Len(text) |-> RequirementEnd(text, i)], 1),
         technologies |-> SelectSeq(techKeywords, In),
         patterns |-> <<>>]

(***************************************************************************)
(* analyzeCodeFeatures(code, language)                                     *)
(***************************************************************************)
\* /const\s+(\w+)\s*=\s*\([^)]*\)\s*=>/ at index i
ArrowFunctionEnd(s, i) ==
    LET name == KeywordName(s, i, Chars("const"))
        eq == RunEnd(s, name + 1, "\\s") + 1
        open == RunEnd(s, eq + 1, "\\s") + 1
        close == RunEnd(s, open + 1, "[^)]") + 1
        arrow == RunEnd(s, close + 1, "\\s") + 1
    IN  IF /\ name # 0
           /\ CharAt(s, eq) = "="
           /\ CharAt(s, open) = "("
           /\ CharAt(s, close) = ")"
           /\ StartsAt(s, arrow, Chars("=>"))
        THEN arrow + 1 ELSE 0

\* /(\w+)\s*:\s*function/ at index i
MethodEnd(s, i) ==
    LET name == RunEnd(s, i, "\\w")
        colon == RunEnd(s, name + 1, "\\s") + 1
        fn == RunEnd(s, colon + 1, "\\s") + 1
    IN  IF /\ name >= i
           /\ CharAt(s, colon) = ":"
           /\ StartsAt(s, fn, Chars("function"))
        THEN fn + 7 ELSE 0

\* /function\s+(\w+)|const\s+(\w+)\s*=\s*\([^)]*\)\s*=>|(\w+)\s*:\s*function/
JsFunctionEnd(s, i) ==
    IF KeywordName(s, i, Chars("function")) # 0
    THEN KeywordName(s, i, Chars("function"))
    ELSE IF ArrowFunctionEnd(s, i) # 0 THEN ArrowFunctionEnd(s, i)
    ELSE MethodEnd(s, i)

\* /import.*from\s+['"][^'"]*['"]/ at index i: .* stays on the line and is
\* as long as the rest of the pattern allows
ImportEnd(s, i) ==
    LET lineEnd == RunEnd(s, i + 6, ".")
        FromEnd(j) ==
            LET quote == RunEnd(s, j + 4, "\\s") + 1
                closing == RunEnd(s, quote + 1, "[^'\"]") + 1
            IN  IF /\ StartsAt(s, j, Chars("from"))
                   /\ quote > j + 4
                   /\ IsQuote(CharAt(s, quote))
                   /\ IsQuote(CharAt(s, closing))
                THEN closing ELSE 0
        froms == { j \in (i + 6)..lineEnd : FromEnd(j) # 0 }
    IN  IF StartsAt(s, i, Chars("import")) /\ froms # {}
        THEN FromEnd(Max(froms)) ELSE 0

\* /<(\w+)[^>]*>/ at index i
ElementEnd(s, i) ==
    LET name == RunEnd(s, i + 1, "\\w")
        close == RunEnd(s, name + 1, "[^>]") + 1
    IN  IF CharAt(s, i) = "<" /\ name > i /\ CharAt(s, close) = ">"
        THEN close ELSE 0

\* /([.#]?[\w-]+)\s*{/ at index i
SelectorEnd(s, i) ==
    LET start == IF CharAt(s, i) \in {".", "#"} THEN i + 1 ELSE i
        name == RunEnd(s, start, "[\\w-]")
        brace == RunEnd(s, name + 1, "\\s") + 1
    IN  IF name >= start /\ CharAt(s, brace) = "{" THEN brace ELSE 0

\* [...new Set(list)]
RECURSIVE Unique(_)
Unique(list) ==
    IF list = <<>> THEN <<>>
    ELSE LET init == Unique(SubSeq(list, 1, Len(list) - 1))
             x == list[Len(list)]
         IN  IF \E k \in 1..Len(init) : init[k] = x THEN init
             ELSE Append(init, x)

\* the array that holds item when cond holds
PushIf(cond, item) == IF cond THEN <<Chars(item)>> ELSE <<>>

NoFeatures ==
    [functions |-> <<>>, classes |-> <<>>, variables |-> <<>>,
     imports |-> <<>>, exports |-> <<>>, frameworks |-> <<>>,
     patterns |-> <<>>, uiElements |-> <<>>, businessLogic |-> <<>>]

analyzeJavaScriptFeatures(code, features) ==
    LET Has(w) == Includes(code, Chars(w))
    IN  [features EXCEPT
            !.functions = matchAll(code,
                    [i \in 1..Len(code) |-> JsFunctionEnd(code, i)], 1),
            !.classes = matchAll(code,
                    [i \in 1..Len(code) |->
                        KeywordName(code, i, Chars("class"))], 1),
            !.imports = matchAll(code,
                    [i \in 1..Len(code) |-> ImportEnd(code, i)], 1),
            !.frameworks =
                PushIf(Has("React") \/ Has("jsx") \/ Has("useState"), "React")
                \o PushIf(Has("Vue") \/ Has("v-if") \/ Has("v-for"), "Vue")
                \o PushIf(Has("express") \/ Has("app.get") \/ Has("app.post"),
                          "Express")]

analyzeHTMLFeatures(code, features) ==
    LET Has(w) == Includes(code, Chars(w))
        elementMatches == matchAll(code,
                [i \in 1..Len(code) |-> ElementEnd(code, i)], 1)
    IN  [features EXCEPT
            !.uiElements =
                \* match.match(/<(\w+)/)[1]
                Unique([k \in 1..Len(elementMatches) |->
                            SubSeq(elementMatches[k], 2,
                                   RunEnd(elementMatches[k], 2, "\\w"))]),
            !.patterns = PushIf(Has("<form"), "form")
                         \o PushIf(Has("<input"), "user-input")
                         \o PushIf(Has("<button"), "interactive")]

analyzeCSSFeatures(code, features) ==
    LET Has(w) == Includes(code, Chars(w))
        selectorMatches == matchAll(code,
                [i \in 1..Len(code) |-> SelectorEnd(code, i)], 1)
    IN  [features EXCEPT
            \* match.replace(/\s*{/, '')
            !.uiElements = [k \in 1..Len(selectorMatches) |->
                                TrimEnd(SubSeq(selectorMatches[k], 1,
                                               Len(selectorMatches[k]) - 1))],
            !.patterns = PushIf(Has("@media"), "responsive")
                         \o PushIf(Has("flexbox") \/ Has("display: flex"),
                                   "flexbox")
                         \o PushIf(Has("grid") \/ Has("display: grid"),
                                   "grid")]

analyzeSolidityFeatures(code, features) ==
    LET Has(w) == Includes(code, Chars(w))
    IN  [features EXCEPT
            !.classes = matchAll(code,
                    [i \in 1..Len(code) |->
                        KeywordName(code, i, Chars("contract"))], 1),
            !.functions = matchAll(code,
                    [i \in 1..Len(code) |->
                        KeywordName(code, i, Chars("function"))], 1),
            !.patterns = PushIf(Has("payable"), "payment")
                         \o PushIf(Has("onlyOwner") \/ Has("modifier"),
                                   "access-control")
                         \o PushIf(Has("event") \/ Has("emit"), "events")]

analyzeGenericPatterns(code, features) ==
    LET codeText == ToLowerCase(code)
        Has(w) == Includes(codeText, Chars(w))
    IN  [features EXCEPT
            !.businessLogic =
                @ \o PushIf(Has("login") \/ Has("authenticate")
                            \/ Has("password"), "authentication"),
            !.patterns =
                @ \o PushIf(Has("create") /\ Has("read") /\ Has("update")
                            /\ Has("delete"), "crud")
                  \o PushIf(Has("api") \/ Has("endpoint") \/ Has("fetch")
                            \/ Has("axios"), "api")
                  \o PushIf(Has("database") \/ Has("db") \/ Has("query")
                            \/ Has("schema"), "database")]

analyzeCodeFeaturesScanAll(code, language) ==
    LET scanned == analyzeJavaScriptFeatures(code, NoFeatures)
        specific ==
            CASE language \in { Chars("javascript"), Chars("js") } -> scanned
              [] language = Chars("html") ->
                     analyzeHTMLFeatures(code, scanned)
              [] language = Chars("css") ->
                     analyzeCSSFeatures(code, scanned)
              [] language = Chars("solidity") ->
                     analyzeSolidityFeatures(code, scanned)
              [] OTHER -> NoFeatures
    IN  analyzeGenericPatterns(code, specific)

analyzeCodeFeatures(code, language) ==
    LET specific ==
            CASE language \in { Chars("javascript"), Chars("js") } ->
                     analyzeJavaScriptFeatures(code, NoFeatures)
              [] language = Chars("html") ->
                     analyzeHTMLFeatures(code, NoFeatures)
              [] language = Chars("css") ->
                     analyzeCSSFeatures(code, NoFeatures)
              [] language = Chars("solidity") ->
                     analyzeSolidityFeatures(code, NoFeatures)
              [] OTHER -> NoFeatures
    IN  analyzeGenericPatterns(code, specific)

(***************************************************************************)
(* checkAlignment and the functions it calls.  A ratio is kept as the      *)
(* fraction num / den the code divides out.                                *)
(***************************************************************************)
Ratio(n, d) == [num |-> n, den |-> d]

\* the quotient q.num / q.den the code holds
Quotient(q) == NumberOf(q.num, q.den)

\* q < n / d, for the quotient q and the literal n / d
RatioLess(q, n, d) == LessThan(Quotient(q), NumberOf(n, d))

\* actionMappings[action] || [action]
actionMappings(action) ==
    CASE action = Chars("create") ->
             << Chars("new "), Chars("create"), Chars("add"),
                Chars("insert"), Chars("post") >>
      [] action = Chars("read") ->
             << Chars("get"), Chars("fetch"), Chars("read"), Chars("find"),
                Chars("select") >>
      [] action = Chars("update") ->
             << Chars("put"), Chars("patch"), Chars("update"),
                Chars("modify"), Chars("edit") >>
      [] action = Chars("delete") ->
             << Chars("delete"), Chars("remove"), Chars("destroy") >>
      [] action = Chars("validate") ->
             << Chars("validate"), Chars("check"), Chars("verify"),
                Chars("test") >>
      [] action = Chars("calculate") ->
             << Chars("calculate"), Chars("compute"), Chars("+"), Chars("-"),
                Chars("*"), Chars("/"), Chars("math") >>
      [] action = Chars("sort") ->
             << Chars("sort"), Chars("order"), Chars("arrange") >>
      [] action = Chars("filter") ->
             << Chars("filter"), Chars("where"), Chars("find") >>
      [] OTHER -> << action >>

findActionImplementation(code, action) ==
    LET implementations == actionMappings(action)
    IN  \E k \in 1..Len(implementations) :
            Includes(ToLowerCase(code), implementations[k])

findImplementedActions(code, requiredActions) ==
    LET codeText == ToLowerCase(code)
        Implemented(action) ==
            \/ Includes(codeText, action)
            \* action.slice(0, -1)
            \/ Includes(codeText, SubSeq(action, 1, Len(action) - 1))
            \/ findActionImplementation(code, action)
    IN  SelectSeq(requiredActions, Implemented)

findImplementedEntities(code, codeFeatures, requiredEntities) ==
    LET codeText == ToLowerCase(code)
        Implemented(entity) ==
            \/ Includes(codeText, entity)
            \/ \E k \in 1..Len(codeFeatures.uiElements) :
                    Includes(codeFeatures.uiElements[k], entity)
            \/ \E k \in 1..Len(codeFeatures.businessLogic) :
                    Includes(codeFeatures.businessLogic[k], entity)
    IN  SelectSeq(requiredEntities, Implemented)

\* list.some(fw => fw.toLowerCase().includes(tech))
InSome(list, tech) ==
    \E k \in 1..Len(list) : Includes(ToLowerCase(list[k]), tech)

findImplementedTech(codeFeatures, requiredTech) ==
    LET Implemented(tech) ==
            \/ InSome(codeFeatures.frameworks, tech)
            \/ InSome(codeFeatures.imports, tech)
    IN  SelectSeq(requiredTech, Implemented)

checkRequirementFulfillment(requirements, code) ==
    LET codeText == ToLowerCase(code)
        Long(word) == Len(word) > 3
        InCode(word) == Includes(codeText, word)
        IsFulfilled(requirement) ==
            LET reqWords == SelectSeq(Split(requirement, " "), Long)
            \* matchCount / reqWords.length >= 0.5, which is false for 0 / 0
            IN  /\ Len(reqWords) # 0
                /\ 2 * Len(SelectSeq(reqWords, InCode)) >= Len(reqWords)
    IN  IF Len(requirements) = 0 THEN Ratio(1, 1)
        ELSE Ratio(Len(SelectSeq(requirements, IsFulfilled)),
                   Len(requirements))

findMissingElements(problemKeywords, codeFeatures, generatedCode) ==
    LET codeText == ToLowerCase(generatedCode)
        NoAction(action) == ~findActionImplementation(generatedCode, action)
        NoEntity(entity) == ~Includes(codeText, entity)
        NoTech(tech) ==
            ~Includes(codeText, tech) /\ ~InSome(codeFeatures.frameworks, tech)
        Prefixed(prefix, list) ==
            [k \in 1..Len(list) |-> Chars(prefix) \o list[k]]
    IN  Prefixed("Missing action: ",
                 SelectSeq(problemKeywords.actions, NoAction))
        \o Prefixed("Missing entity: ",
                    SelectSeq(problemKeywords.entities, NoEntity))
        \o Prefixed("Missing technology: ",
                    SelectSeq(problemKeywords.technologies, NoTech))

\* required.length > 0 ? implemented.length / required.length : 0
alignmentRatioNoneIsZero(implemented, required) ==
    IF Len(required) > 0 THEN Ratio(Len(implemented), Len(required))
    ELSE Ratio(0, 1)

\* required.length > 0 ? implemented.length / required.length : 1
alignmentRatio(implemented, required) ==
    IF Len(required) > 0 THEN Ratio(Len(implemented), Len(required))
    ELSE Ratio(1, 1)

\* a * 0.3 + e * 0.3 + t * 0.2 + r * 0.2, each product and each sum, from the
\* left, rounded
overallAlignment(a, e, t, r) ==
    The({ Plus(ae, Times(Quotient(r), NumberOf(2, 10))) :
          ae \in { The({ Plus(sum, Times(Quotient(t), NumberOf(2, 10))) :
                         sum \in { Plus(Times(Quotient(a), NumberOf(3, 10)),
                                        Times(Quotient(e), NumberOf(3, 10))) } }) } })

checkAlignment(problemKeywords, codeFeatures, originalProblem, generatedCode) ==
    The({ [actionAlignment |-> a,
           entityAlignment |-> e,
           technologyAlignment |-> t,
           requirementAlignment |-> r,
           overallAlignment |-> overallAlignment(a, e, t, r),
           missingElements |-> findMissingElements(problemKeywords,
                                                   codeFeatures, generatedCode),
           extraElements |-> <<>>] :
          a \in { alignmentRatio(
                      findImplementedActions(generatedCode,
                                             problemKeywords.actions),
                      problemKeywords.actions) },
          e \in { alignmentRatio(
                      findImplementedEntities(generatedCode, codeFeatures,
                                              problemKeywords.entities),
                      problemKeywords.entities) },
          t \in { alignmentRatio(
                      findImplementedTech(codeFeatures,
                                          problemKeywords.technologies),
                      problemKeywords.technologies) },
          r \in { checkRequirementFulfillment(problemKeywords.requirements,
                                              generatedCode) } })

\* the confidence as the percentage that execute logs
calculateConfidencePercent(alignment) ==
    Times(alignment.overallAlignment, NumberOf(100, 1))

\* Math.max(0, Math.min(1, alignment.overallAlignment))
calculateConfidence(alignment) ==
    LET x == alignment.overallAlignment
        min == IF LessThan(x, NumberOf(1, 1)) THEN x ELSE NumberOf(1, 1)
    IN  IF LessThan(min, Zero) THEN Zero ELSE min

identifyIssues(alignment, problemKeywords, codeFeatures) ==
    LET missing == alignment.missingElements
    IN  PushIf(RatioLess(alignment.actionAlignment, 1, 2),
               "Code does not implement the required actions from the problem statement")
        \o PushIf(RatioLess(alignment.entityAlignment, 1, 2),
               "Code is missing key entities or components mentioned in the problem")
        \o PushIf(RatioLess(alignment.technologyAlignment, 3, 10),
               "Code does not use the required technologies or frameworks")
        \o PushIf(RatioLess(alignment.requirementAlignment, 2, 5),
               "Code does not fulfill the specific requirements outlined in the problem")
        \o (IF Len(missing) > 3
            THEN << Chars("Multiple missing elements: ")
                    \o Join(SubSeq(missing, 1, 3), Chars(", "))
                    \o Chars("...") >>
            ELSE <<>>)

\* JSON.stringify of a string, of an array of strings and of codeFeatures
JsonChar(c) ==
    CASE c = "\"" -> <<"\\", "\"">>
      [] c = "\\" -> <<"\\", "\\">>
      [] c = "\n" -> <<"\\", "n">>
      [] c = "\r" -> <<"\\", "r">>
      [] c = "\t" -> <<"\\", "t">>
      [] OTHER -> <<c>>

JsonString(s) ==
    <<"\"">> \o Join([k \in 1..Len(s) |-> JsonChar(s[k])], <<>>) \o <<"\"">>

JsonArray(list) ==
    <<"[">> \o Join([k \in 1..Len(list) |-> JsonString(list[k])], <<",">>)
    \o <<"]">>

JsonFeatures(f) ==
    LET Field(name, list) == JsonString(Chars(name)) \o <<":">> \o JsonArray(list)
    IN  <<"{">>
        \o Join(<< Field("functions", f.functions),
                   Field("classes", f.classes),
                   Field("variables", f.variables),
                   Field("imports", f.imports),
                   Field("exports", f.exports),
                   Field("frameworks", f.frameworks),
                   Field("patterns", f.patterns),
                   Field("uiElements", f.uiElements),
                   Field("businessLogic", f.businessLogic) >>, <<",">>)
        \o <<"}">>

generateSuggestions(alignment, problemKeywords, codeFeatures, language) ==
    LET NoAction(action) ==
            ~findActionImplementation(JsonFeatures(codeFeatures), action)
        NoTech(tech) == ~InSome(codeFeatures.frameworks, tech)
    IN  (IF RatioLess(alignment.actionAlignment, 1, 2)
         THEN << Chars("Implement missing actions: ")
                 \o Join(SelectSeq(problemKeywords.actions, NoAction),
                         Chars(", ")) >>
         ELSE <<>>)
        \o PushIf(RatioLess(alignment.entityAlignment, 1, 2),
               "Add the missing UI elements or business entities mentioned in the problem")
        \o (IF RatioLess(alignment.technologyAlignment, 3, 10)
            THEN << Chars("Integrate required technologies: ")
                    \o Join(SelectSeq(problemKeywords.technologies, NoTech),
                            Chars(", ")) >>
            ELSE <<>>)
        \o PushIf(Len(problemKeywords.requirements) > 0
                  /\ RatioLess(alignment.requirementAlignment, 2, 5),
               "Review and implement the specific requirements mentioned in the problem statement")
        \o PushIf(language = Chars("html") /\ Len(codeFeatures.uiElements) = 0,
               "Add HTML elements to create the user interface")
        \o PushIf(language = Chars("javascript")
                  /\ Len(codeFeatures.functions) = 0,
               "Add functions to implement the required functionality")

(***************************************************************************)
(* analyze(originalProblem, generatedCode, language).  A problem or a code *)
(* that is not a string makes toLowerCase throw a TypeError, which the     *)
(* catch clause turns into a verdict; what the analysis holds by then is   *)
(* kept.                                                                   *)
(***************************************************************************)
\* the message of the TypeError of v.toLowerCase(), v called name
ToLowerCaseError(v, name) ==
    IF v.type = "undefined"
    THEN Chars("Cannot read properties of undefined (reading 'toLowerCase')")
    ELSE Chars(name) \o Chars(".toLowerCase is not a function")

\* the result of the try block once the alignment is known
verdict(alignment, problemKeywords, codeFeatures, language) ==
    The({ [addressesProblem |-> addressesProblem,
           confidence |-> confidence,
           issues |->
               IF addressesProblem THEN <<>>
               ELSE identifyIssues(alignment, problemKeywords, codeFeatures),
           suggestions |->
               IF addressesProblem THEN <<>>
               ELSE generateSuggestions(alignment, problemKeywords,
                                        codeFeatures, language),
           analysis |->
               [completed |-> TRUE,
                problemKeywords |-> problemKeywords,
                codeFeatures |-> codeFeatures,
                alignment |-> alignment]] :
          confidence \in { calculateConfidence(alignment) },
          addressesProblem \in
              { ~LessThan(calculateConfidence(alignment), NumberOf(6, 10)) } })

\* the try block once the keywords and the features are known
completedAnalysis(problemKeywords, codeFeatures, problem, code, language) ==
    The({ verdict(alignment, problemKeywords, codeFeatures, language) :
          alignment \in { checkAlignment(problemKeywords, codeFeatures,
                                         problem, code) } })

analyze(originalProblem, generatedCode, language) ==
    IF originalProblem.type # "string"
    THEN analysisFailed(EmptyAnalysis,
                        ToLowerCaseError(originalProblem, "problemStatement"))
    ELSE IF generatedCode.type # "string"
    THEN analysisFailed(
             [EmptyAnalysis EXCEPT
                 !.problemKeywords =
                     extractProblemKeywords(originalProblem.val)],
             ToLowerCaseError(generatedCode, "code"))
    ELSE The({ completedAnalysis(problemKeywords, codeFeatures,
                                 originalProblem.val, generatedCode.val,
                                 language) :
               problemKeywords \in
                   { extractProblemKeywords(originalProblem.val) },
               codeFeatures \in
                   { analyzeCodeFeatures(generatedCode.val, language) } })

(***************************************************************************)
(* The inputs of execute.                                                  *)
(***************************************************************************)
ProblemStatements ==
    { Undefined, NumberVal, Str(<<>>), Str(<<" ">>), Str(<<"p">>) }

Languages ==
    { Undefined, NumberVal, Str(<<"c", "o", "b", "o", "l">>),
      Str(<<"J", "S">>) }

\* options.generatorContext is left out, or an object the caller keeps
OptionsSet ==
    [problemStatement : ProblemStatements, language : Languages,
     codeGenerator : { Undefined, ObjectVal, FunctionVal },
     generatorContext : { "omitted", "caller" }]

NoOptions ==
    [problemStatement |-> Undefined, language |-> Undefined,
     codeGenerator |-> Undefined, generatorContext |-> "omitted"]

(***************************************************************************)
(* JavaScript numbers: the integer n, n + 0.5, and NaN.                    *)
(***************************************************************************)
Num(n) == [type |-> "number", num |-> n, form |-> "int"]
NaN == [type |-> "number", num |-> 0, form |-> "nan"]

\* a < v and a <= v, for an integer a and a number v
IntLess(a, v) ==
    /\ v.form # "nan"
    /\ IF v.form = "int" THEN a < v.num ELSE a <= v.num
IntLessEq(a, v) == v.form # "nan" /\ a <= v.num

\* `${v}`
NumToString(v) ==
    CASE v.form = "nan" -> <<"NaN">>
      [] v.form = "int" -> <<ToString(v.num)>>
      [] v.form = "half" -> <<ToString(v.num), ".5">>

\* the arguments of setMaxAttempts: numbers, and a value that is not a number
MaxAttemptsValues ==
    { Num(n) : n \in -1..MaxCeiling } \cup { Str(<<"2">>) }

(***************************************************************************)
(* State.                                                                  *)
(*   maxRegenerationAttempts  this.maxRegenerationAttempts                 *)
(*   previousAttempts[c]      the previousAttempts property of context     *)
(*                            object c: 0 is the caller's object, r > 0    *)
(*                            the {} that call r of execute defaults to    *)
(*   pc[r]                    where call r of execute is: "idle" (not      *)
(*                            called), "awaitGen" (suspended in await      *)
(*                            generateCode), "done" (returned)             *)
(*   options[r]               its argument                                 *)
(*   attempt[r]               its local variable attempt                   *)
(*   result[r]                the promise it returned                      *)
(*   context[r]               the context given to its latest generator    *)
(*                            call, as the generator sees it at the call   *)
(*   generatorCalls[r], validatorCalls[r], scorerCalls[r]                  *)
(*                            calls of the collaborators it made           *)
(*   last[r]                  how the try block of its latest iteration    *)
(*                            ended                                        *)
(*   kinds[r]                 how the try block of each iteration ended    *)
(*   ceiling[r]               maxRegenerationAttempts when it was called   *)
(*                            (its integer part)                           *)
(*   runsStarted              calls of execute made so far                 *)
(***************************************************************************)
VARIABLES maxRegenerationAttempts, previousAttempts, pc, options, attempt,
          result, context, generatorCalls, validatorCalls, scorerCalls,
          last, kinds, ceiling, runsStarted

(***************************************************************************)
(* A call of SelfReflection.analyze on its own:                            *)
(*   analyzeArgs              its arguments                                *)
(*   analyzeResult            what it returned, Undefined before it has    *)
(***************************************************************************)
VARIABLES analyzeArgs, analyzeResult

vars == <<maxRegenerationAttempts, previousAttempts, pc, options, attempt,
          result, context, generatorCalls, validatorCalls, scorerCalls,
          last, kinds, ceiling, runsStarted, analyzeArgs, analyzeResult>>

\* no call of analyze
NoCall ==
    [originalProblem |-> Undefined, generatedCode |-> Undefined,
     language |-> <<>>]

\* a property that is not set, and one that holds an array
Absent == [present |-> FALSE, items |-> <<>>]
ArrayOf(items) == [present |-> TRUE, items |-> items]

Pending == [state |-> "pending", value |-> Undefined]
Fulfilled(v) == [state |-> "fulfilled", value |-> v]
Null == [type |-> "null", val |-> <<>>]

NoContext ==
    [problemStatement |-> Undefined, language |-> Undefined, attempt |-> 0,
     previousAttempts |-> Absent]

NoAttempt ==
    [kind |-> "none", code |-> <<>>, syntaxValidation |-> Undefined,
     reflectionResult |-> Undefined, msg |-> <<>>,
     generatorOutcome |-> Undefined,
     validatorCalled |-> FALSE, validatorRaised |-> FALSE,
     scorerCalled |-> FALSE]

\* one {} shared by every call that leaves generatorContext out
contextObjectShared(r, gc) == 0

\* generatorContext = {} in the destructuring of options: the object that
\* generatorContext refers to in call r, given options.generatorContext
contextObjectOf(r, gc) == IF gc = "omitted" THEN r ELSE 0

\* the context object generatorContext of call r refers to
ContextObject(r) == contextObjectOf(r, options[r].generatorContext)

\* the properties come in the other order: ...generatorContext first
spreadFirst(base, gc, prev) == [base EXCEPT !.previousAttempts = prev]

\* { problemStatement, language, attempt, ...generatorContext }: the own
\* properties of generatorContext replace those of the same name; prev is
\* its previousAttempts, and "callerWithAttempt" is a caller's object that
\* has a property attempt: 0
spread(base, gc, prev) ==
    [base EXCEPT !.attempt = IF gc = "callerWithAttempt" THEN 0 ELSE @,
                 !.previousAttempts = prev]

\* new ValidationPipeline(), before any call of execute
NewPipeline ==
    /\ maxRegenerationAttempts = Num(DefaultMaxAttempts)
    /\ previousAttempts = [c \in ContextObjects |-> Absent]
    /\ pc = [r \in Runs |-> "idle"]
    /\ options = [r \in Runs |-> NoOptions]
    /\ attempt = [r \in Runs |-> 0]
    /\ result = [r \in Runs |-> Pending]
    /\ context = [r \in Runs |-> NoContext]
    /\ generatorCalls = [r \in Runs |-> 0]
    /\ validatorCalls = [r \in Runs |-> 0]
    /\ scorerCalls = [r \in Runs |-> 0]
    /\ last = [r \in Runs |-> NoAttempt]
    /\ kinds = [r \in Runs |-> <<>>]
    /\ ceiling = [r \in Runs |-> 0]
    /\ runsStarted = 0

Init ==
    /\ NewPipeline
    /\ analyzeArgs = NoCall
    /\ analyzeResult = Undefined

\* the while condition with < for <=
loopConditionStrict(a) == IntLess(a, maxRegenerationAttempts)

\* while (attempt <= this.maxRegenerationAttempts)
loopCondition(a) == IntLessEq(a, maxRegenerationAttempts)

\* the retry guard with <= for <
attemptsRemainInclusive(a) == IntLessEq(a, maxRegenerationAttempts)

\* attempt < this.maxRegenerationAttempts
attemptsRemain(a) == IntLess(a, maxRegenerationAttempts)

\* attempt++ left out before continue
incrementForgotten(a) == a

\* attempt++
increment(a) == a + 1

\* the record is pushed without the verdict
pushAttemptNoVerdict(h, obj, record) ==
    [h EXCEPT ![obj] =
        ArrayOf(Append(@.items, [record EXCEPT !.reflectionResult = Undefined]))]

\* generatorContext.previousAttempts = generatorContext.previousAttempts || [];
\* generatorContext.previousAttempts.push(record), on context object obj
pushAttempt(h, obj, record) ==
    [h EXCEPT ![obj] = ArrayOf(Append(@.items, record))]

\* the next generator call is issued together with the one after it
LoopHeadEager(r, opts, a, h, g, c) ==
    IF loopCondition(a)
    THEN /\ pc' = [pc EXCEPT ![r] = "awaitGen"]
         /\ context' = [context EXCEPT ![r] =
               spread([problemStatement |-> opts.problemStatement,
                       language |-> opts.language,
                       attempt |-> a,
                       previousAttempts |-> Absent],
                      opts.generatorContext,
                      h[contextObjectOf(r, opts.generatorContext)])]
         /\ generatorCalls' = [generatorCalls EXCEPT ![r] = g + 2]
         /\ result' = [result EXCEPT ![r] = Pending]
    ELSE /\ pc' = [pc EXCEPT ![r] = "done"]
         /\ result' = [result EXCEPT ![r] = Fulfilled(Null)]
         /\ context' = [context EXCEPT ![r] = c]
         /\ generatorCalls' = [generatorCalls EXCEPT ![r] = g]

(***************************************************************************)
(* The head of execute's while loop, reached with attempt = a and context  *)
(* objects h, after g generator calls of which the latest got context c:   *)
(* either the next iteration calls the generator and execute suspends, or  *)
(* the loop ends and finalResult, still null, is returned.                 *)
(***************************************************************************)
LoopHead(r, opts, a, h, g, c) ==
    IF loopCondition(a)
    THEN /\ pc' = [pc EXCEPT ![r] = "awaitGen"]
         /\ context' = [context EXCEPT ![r] =
               spread([problemStatement |-> opts.problemStatement,
                       language |-> opts.language,
                       attempt |-> a,
                       previousAttempts |-> Absent],
                      opts.generatorContext,
                      h[contextObjectOf(r, opts.generatorContext)])]
         /\ generatorCalls' = [generatorCalls EXCEPT ![r] = g + 1]
         /\ result' = [result EXCEPT ![r] = Pending]
    ELSE /\ pc' = [pc EXCEPT ![r] = "done"]
         /\ result' = [result EXCEPT ![r] = Fulfilled(Null)]
         /\ context' = [context EXCEPT ![r] = c]
         /\ generatorCalls' = [generatorCalls EXCEPT ![r] = g]

\* execute returns v
Return(r, v) ==
    /\ pc' = [pc EXCEPT ![r] = "done"]
    /\ result' = [result EXCEPT ![r] = Fulfilled(v)]

(***************************************************************************)
(* execute(options), up to its first await or its return.                  *)
(***************************************************************************)
Start(r, opts) ==
    /\ pc[r] = "idle"
    /\ runsStarted' = runsStarted + 1
    /\ options' = [options EXCEPT ![r] = opts]
    /\ ceiling' = [ceiling EXCEPT ![r] = maxRegenerationAttempts.num]
    /\ kinds' = [kinds EXCEPT ![r] = <<>>]
    /\ last' = [last EXCEPT ![r] = NoAttempt]
    /\ validatorCalls' = [validatorCalls EXCEPT ![r] = 0]
    /\ scorerCalls' = [scorerCalls EXCEPT ![r] = 0]
    /\ previousAttempts' = [previousAttempts EXCEPT ![r] = Absent]
    /\ UNCHANGED <<maxRegenerationAttempts, analyzeArgs, analyzeResult>>
    /\ LET inputValidation == validateInput(opts)
       IN  IF ~inputValidation.isValid
           THEN /\ Return(r, inputValidation)
                /\ attempt' = [attempt EXCEPT ![r] = 0]
                /\ context' = [context EXCEPT ![r] = NoContext]
                /\ generatorCalls' = [generatorCalls EXCEPT ![r] = 0]
           ELSE /\ attempt' = [attempt EXCEPT ![r] = 1]
                /\ LoopHead(r, opts, 1, previousAttempts', 0, NoContext)

(***************************************************************************)
(* The objects execute returns from its loop: t is how the try block of    *)
(* the iteration ended, a is attempt.                                      *)
(***************************************************************************)
\* the error of the final attempt is left out of the reason
errorExhaustedNoReason(t) ==
    [success |-> FALSE,
     error |-> <<"Pipeline failed after">>
               \o NumToString(maxRegenerationAttempts) \o <<"attempts:">>,
     lastError |-> t.msg]

\* the return of the catch clause
errorExhausted(t) ==
    [success |-> FALSE,
     error |-> <<"Pipeline failed after">>
               \o NumToString(maxRegenerationAttempts) \o <<"attempts:">> \o t.msg,
     lastError |-> t.msg]

\* the return under !syntaxValidation.isValid
syntaxExhausted(t, a) ==
    [success |-> FALSE,
     error |-> <<"Maximum regeneration attempts exceeded">>,
     lastAttempt |-> [code |-> t.code,
                      syntaxValidation |-> t.syntaxValidation,
                      attempt |-> a]]

\* the return under !reflectionResult.addressesProblem
alignmentExhausted(t, a) ==
    [success |-> FALSE,
     error |-> <<"Code does not address the stated problem after maximum attempts">>,
     lastAttempt |-> [code |-> t.code,
                      syntaxValidation |-> t.syntaxValidation,
                      reflectionResult |-> t.reflectionResult,
                      attempt |-> a]]

\* metadata.attempts reports the ceiling instead of attempt
successResultCeiling(opts, t, a) ==
    [success |-> TRUE,
     code |-> t.code,
     language |-> opts.language,
     validationResults |-> [syntax |-> t.syntaxValidation,
                            reflection |-> t.reflectionResult],
     metadata |-> [attempts |-> maxRegenerationAttempts.num,
                   problemStatement |-> opts.problemStatement,
                   language |-> opts.language]]

\* finalResult
successResult(opts, t, a) ==
    [success |-> TRUE,
     code |-> t.code,
     language |-> opts.language,
     validationResults |-> [syntax |-> t.syntaxValidation,
                            reflection |-> t.reflectionResult],
     metadata |-> [attempts |-> a,
                   problemStatement |-> opts.problemStatement,
                   language |-> opts.language]]

(***************************************************************************)
(* execute resumes from await generateCode: the outstanding generator call *)
(* has settled as out; the rest of the iteration runs, with the validator  *)
(* behaving as so and the scorer as sc, up to the return of execute or to  *)
(* the generator call of the next iteration.                               *)
(***************************************************************************)
GeneratorSettles(r, out, so, sc) ==
    /\ pc[r] = "awaitGen"
    /\ LET opts == options[r]
           t == tryBlock(opts.language.val, out, so, sc)
           more == attemptsRemain(attempt[r])
           record == [attempt |-> attempt[r], code |-> t.code,
                      syntaxValidation |-> t.syntaxValidation,
                      reflectionResult |-> t.reflectionResult]
           pushed == pushAttempt(previousAttempts, ContextObject(r), record)
           Retry(h) ==
               /\ previousAttempts' = h
               /\ attempt' = [attempt EXCEPT ![r] = increment(@)]
               /\ LoopHead(r, opts, increment(attempt[r]), h,
                           generatorCalls[r], context[r])
           Finish(v) ==
               /\ Return(r, v)
               /\ UNCHANGED <<previousAttempts, attempt, context,
                              generatorCalls>>
       IN  /\ last' = [last EXCEPT ![r] = t]
           /\ kinds' = [kinds EXCEPT ![r] = Append(@, t.kind)]
           /\ validatorCalls' = [validatorCalls EXCEPT ![r] =
                                    @ + (IF t.validatorCalled THEN 1 ELSE 0)]
           /\ scorerCalls' = [scorerCalls EXCEPT ![r] =
                                 @ + (IF t.scorerCalled THEN 1 ELSE 0)]
           /\ CASE t.kind = "threw" ->
                     IF more THEN Retry(previousAttempts)
                     ELSE Finish(errorExhausted(t))
                [] t.kind = "syntaxInvalid" ->
                     IF more THEN Retry(previousAttempts)
                     ELSE Finish(syntaxExhausted(t, attempt[r]))
                [] t.kind = "misaligned" ->
                     IF more THEN Retry(pushed)
                     ELSE Finish(alignmentExhausted(t, attempt[r]))
                [] t.kind = "accepted" ->
                     Finish(successResult(opts, t, attempt[r]))
    /\ UNCHANGED <<maxRegenerationAttempts, options, ceiling, runsStarted,
                   analyzeArgs, analyzeResult>>

(***************************************************************************)
(* setMaxAttempts(maxAttempts): throws, or sets the ceiling.               *)
(***************************************************************************)
setMaxAttempts(v, current) ==
    IF v.type # "number" \/ (v.form # "nan" /\ v.num < 1)
    THEN [threw |-> TRUE, value |-> current,
          msg |-> <<"Max attempts must be a positive number">>]
    ELSE [threw |-> FALSE, value |-> v, msg |-> <<>>]

SetMaxAttempts(v) ==
    /\ maxRegenerationAttempts' =
           setMaxAttempts(v, maxRegenerationAttempts).value
    /\ UNCHANGED <<previousAttempts, pc, options, attempt, result, context,
                   generatorCalls, validatorCalls, scorerCalls, last, kinds,
                   ceiling, runsStarted, analyzeArgs, analyzeResult>>

\* getStats()
getStats ==
    [supportedLanguages |-> Cardinality(supportedLanguages),
     maxAttempts |-> maxRegenerationAttempts,
     validators |-> Cardinality(validators)]

(***************************************************************************)
(* A caller that sets the ceiling and then makes one call of execute.      *)
(***************************************************************************)
NoRunStarted == \A r \in Runs : pc[r] = "idle"

Next ==
    \/ \E opts \in OptionsSet : Start(1, opts)
    \/ \E out \in GeneratorOutcomes, so \in SyntaxOutcomes, sc \in ScorerOutcomes :
          GeneratorSettles(1, out, so, sc)
    \/ NoRunStarted /\ \E v \in MaxAttemptsValues : SetMaxAttempts(v)

Spec == Init /\ [][Next]_vars

(***************************************************************************)
(* The same caller, with every value that setMaxAttempts can be given,     *)
(* with or without a maxAttempts in the options, and with a context        *)
(* object of its own that may have an attempt property.                    *)
(***************************************************************************)
WideMaxAttemptsValues ==
    MaxAttemptsValues
    \cup { [type |-> "number", num |-> n, form |-> "half"] :
            n \in 0..(MaxCeiling - 1) }
    \cup { NaN }

WideOptionsSet ==
    [problemStatement : { Str(<<"p">>) }, language : { Str(<<"J", "S">>) },
     codeGenerator : { FunctionVal },
     generatorContext : { "omitted", "caller", "callerWithAttempt" },
     maxAttempts : { Undefined, Num(1) }]

WideNext ==
    \/ \E opts \in WideOptionsSet : Start(1, opts)
    \/ \E out \in GeneratorOutcomes, so \in SyntaxOutcomes, sc \in ScorerOutcomes :
          GeneratorSettles(1, out, so, sc)
    \/ NoRunStarted /\ \E v \in WideMaxAttemptsValues : SetMaxAttempts(v)

WideSpec == Init /\ [][WideNext]_vars

(***************************************************************************)
(* Every outstanding generator call settles: it returns, throws or         *)
(* rejects.                                                                *)
(***************************************************************************)
(***************************************************************************)
(* A caller that makes one call of execute and, when it has returned, a    *)
(* second call with the same generatorContext object.                      *)
(***************************************************************************)
ReuseOptionsSet ==
    [problemStatement : { Str(<<"p">>) }, language : { Str(<<"J", "S">>) },
     codeGenerator : { FunctionVal }, generatorContext : { "caller" }]

ReuseGeneratorOutcomes ==
    { o \in GeneratorOutcomes :
        o.kind = "throws" \/ (o.kind = "returns" /\ o.val = Str(<<"a">>)) }

ReuseSyntaxOutcomes ==
    { o \in SyntaxOutcomes : o.kind = "returns" /\ o.result # Undefined }

ReuseScorerOutcomes ==
    { o \in ScorerOutcomes :
        o.kind = "returns" /\ o.result \in { AlignedVerdict, MisalignedVerdict } }

ReuseNext ==
    \/ \E opts \in ReuseOptionsSet : Start(1, opts)
    \/ \E opts \in ReuseOptionsSet : pc[1] = "done" /\ Start(2, opts)
    \/ \E r \in Runs, out \in ReuseGeneratorOutcomes,
          so \in ReuseSyntaxOutcomes, sc \in ReuseScorerOutcomes :
            GeneratorSettles(r, out, so, sc)
    \/ NoRunStarted /\ \E v \in MaxAttemptsValues : SetMaxAttempts(v)

ReuseSpec == Init /\ [][ReuseNext]_vars

(***************************************************************************)
(* A caller that makes one call of execute and calls setMaxAttempts at any *)
(* time, also while the call of execute is suspended in its generator.     *)
(***************************************************************************)
MidRunNext ==
    \/ \E opts \in ReuseOptionsSet : Start(1, opts)
    \/ \E out \in ReuseGeneratorOutcomes, so \in ReuseSyntaxOutcomes,
          sc \in ReuseScorerOutcomes :
            GeneratorSettles(1, out, so, sc)
    \/ \E v \in MaxAttemptsValues : SetMaxAttempts(v)

MidRunSpec == Init /\ [][MidRunNext]_vars

(***************************************************************************)
(* Two calls of execute on one pipeline, with different problem statements *)
(* and generators, that interleave at their awaits.                        *)
(***************************************************************************)
ConcOptions(r) ==
    [problemStatement : { IF r = 1 THEN Str(<<"p">>) ELSE Str(<<"q">>) },
     language : { Str(<<"J", "S">>) },
     codeGenerator : { FunctionVal },
     generatorContext : IF r = 1 THEN { "omitted", "caller" }
                        ELSE { "omitted" }]

\* the generator of run 1 returns 'a', the one of run 2 returns ' b '
ConcGeneratorOutcome(r) ==
    [kind |-> "returns", msg |-> <<>>,
     val |-> IF r = 1 THEN Str(<<"a">>) ELSE Str(<<" ", "b", " ">>)]

ConcNext ==
    \/ \E r \in Runs : \E opts \in ConcOptions(r) : Start(r, opts)
    \/ \E r \in Runs, so \in ReuseSyntaxOutcomes, sc \in ReuseScorerOutcomes :
            GeneratorSettles(r, ConcGeneratorOutcome(r), so, sc)
    \/ NoRunStarted /\ \E v \in MaxAttemptsValues : SetMaxAttempts(v)

ConcSpec == Init /\ [][ConcNext]_vars

(***************************************************************************)
(* One call of SelfReflection.analyze.  The problem statements and the     *)
(* codes are the texts made of some of the phrases below, in their order,  *)
(* or are not strings.                                                     *)
(***************************************************************************)
RECURSIVE TextsOf(_)
TextsOf(phrases) ==
    IF phrases = <<>> THEN { <<>> }
    ELSE LET rest == TextsOf(Tail(phrases))
         IN  rest \cup { Head(phrases) \o t : t \in rest }

ProblemPhrases ==
    << Chars("Create a login form. "),
       Chars("It must sort the list! "),
       Chars("Use React and it has to be ok. "),
       Chars("The page should validate user input") >>

CodePhrases ==
    << Chars("import React from 'react';\n"),
       Chars("const sort = (list) => list.sort();\n"),
       Chars("<form><input name=\"user\"><button>Login</button></form>\n"),
       Chars("validate: function (input) { return input + 1; }") >>

\* a problem statement without any keyword
PlainProblem == Chars("Hello there")

\* a problem statement of four actions, eight technologies and one
\* requirement, and a code with three of the actions and three of the
\* technologies
ThresholdProblem ==
    Chars("Sort, filter, search and compress with react, vue, express, ")
    \o Chars("angular, mysql, graphql, xml and csv! It must work")

ThresholdCode ==
    Chars("import React from 'react';\nimport Vue from 'vue';\n")
    \o Chars("import e from 'express';\nsort(filter(search()));")

\* a problem statement of two actions, two entities, two technologies and
\* two requirements, and a code with one of each
HalfwayProblem ==
    Chars("Sort and filter the list and the table with React and Vue. ")
    \o Chars("It must sort. It should filter")

HalfwayCode == Chars("import React from 'react';\nsort(list);")

AnalyzeProblems ==
    { Undefined, NumberVal } \cup { Str(t) : t \in TextsOf(ProblemPhrases) }
    \cup { Str(PlainProblem), Str(ThresholdProblem), Str(HalfwayProblem) }

AnalyzeCodes ==
    { Undefined, NumberVal } \cup { Str(t) : t \in TextsOf(CodePhrases) }
    \cup { Str(ThresholdCode), Str(HalfwayCode) }

AnalyzeLanguages ==
    { Chars("javascript"), Chars("js"), Chars("html"), Chars("css"),
      Chars("solidity") }

ScorerInit ==
    /\ NewPipeline
    /\ analyzeArgs \in [originalProblem : AnalyzeProblems,
                         generatedCode : AnalyzeCodes,
                         language : AnalyzeLanguages]
    /\ analyzeResult = Undefined

Analyze ==
    /\ analyzeArgs # NoCall
    /\ analyzeResult = Undefined
    /\ analyzeResult' = analyze(analyzeArgs.originalProblem,
                                analyzeArgs.generatedCode,
                                analyzeArgs.language)
    /\ UNCHANGED <<maxRegenerationAttempts, previousAttempts, pc, options,
                   attempt, result, context, generatorCalls, validatorCalls,
                   scorerCalls, last, kinds, ceiling, runsStarted,
                   analyzeArgs>>

ScorerNext == Analyze

ScorerSpec == ScorerInit /\ [][ScorerNext]_vars

FairSpec ==
    Spec /\ WF_vars(\E out \in GeneratorOutcomes, so \in SyntaxOutcomes,
                       sc \in ScorerOutcomes : GeneratorSettles(1, out, so, sc))

(***************************************************************************)
(* Reading the result of a call.                                           *)
(***************************************************************************)
Done(r) == pc[r] = "done"
Value(r) == result[r].value
IsSuccess(v) == "success" \in DOMAIN v /\ v.success = TRUE
IsFailure(v) == "success" \in DOMAIN v /\ v.success = FALSE
Attempts(r) == Len(kinds[r])
Rejections == {"syntaxInvalid", "misaligned"}

\* C1: with attempt ceiling N, whatever the generator and the syntax
\* collaborator do, a run of execute makes at most N generator calls and,
\* every generator call settling, it terminates.
C1_TerminatesWithinCeiling ==
    /\ [](\A r \in Runs : generatorCalls[r] <= ceiling[r])
    /\ \A r \in Runs : (pc[r] = "awaitGen") ~> (pc[r] = "done")

\* a run that used up a ceiling of more than one attempt and returned
C1_Witness ==
    \E r \in Runs : Done(r) /\ ceiling[r] > 1 /\ generatorCalls[r] = ceiling[r]

\* C2: a Success is returned only when the final attempt's syntax result
\* has isValid = true and its verdict has addressesProblem = true, and it
\* carries that attempt's code, syntax result and verdict.
C2_SuccessOnlyWhenValidated ==
    \A r \in Runs :
        Done(r) /\ IsSuccess(Value(r)) =>
            /\ last[r].syntaxValidation # Undefined
            /\ last[r].syntaxValidation.isValid = TRUE
            /\ last[r].reflectionResult # Undefined
            /\ last[r].reflectionResult.addressesProblem = TRUE
            /\ Value(r).code = last[r].code
            /\ Value(r).validationResults.syntax = last[r].syntaxValidation
            /\ Value(r).validationResults.reflection = last[r].reflectionResult

\* a Success on the last allowed attempt, after a rejected one
C2_Witness ==
    \E r \in Runs :
        /\ Done(r) /\ IsSuccess(Value(r))
        /\ Attempts(r) = ceiling[r] /\ ceiling[r] > 1
        /\ kinds[r][1] \in Rejections

\* C3: with ceiling N, if every attempt fails syntax or alignment, the
\* generator is called exactly N times and the run returns a Failure whose
\* lastAttempt has attempt = N and the code and syntax result of the N-th
\* attempt: isValid = false when it failed syntax, and the verdict when it
\* failed alignment.
C3_Exhaustion ==
    \A r \in Runs :
        ( /\ Done(r) /\ Attempts(r) >= 1
          /\ \A i \in 1..Attempts(r) : kinds[r][i] \in Rejections ) =>
            /\ generatorCalls[r] = ceiling[r]
            /\ Attempts(r) = ceiling[r]
            /\ IsFailure(Value(r))
            /\ "lastAttempt" \in DOMAIN Value(r)
            /\ Value(r).lastAttempt.attempt = ceiling[r]
            /\ Value(r).lastAttempt.code = last[r].code
            /\ Value(r).lastAttempt.syntaxValidation = last[r].syntaxValidation
            /\ last[r].kind = "syntaxInvalid" =>
                  Value(r).lastAttempt.syntaxValidation.isValid = FALSE
            /\ last[r].kind = "misaligned" =>
                  /\ "reflectionResult" \in DOMAIN Value(r).lastAttempt
                  /\ Value(r).lastAttempt.reflectionResult = last[r].reflectionResult

\* a run of three attempts that failed in a mix of the two ways
C3_Witness ==
    \E r \in Runs :
        /\ Done(r) /\ Attempts(r) = 3
        /\ \A i \in 1..Attempts(r) : kinds[r][i] \in Rejections
        /\ \E i, j \in 1..Attempts(r) : kinds[r][i] # kinds[r][j]

\* the history a generator call is given: the length of previousAttempts,
\* none when the property is not set
HistoryLength(c) == Len(c.previousAttempts.items)

\* C4: at every generator call of a run, the history in
\* context.previousAttempts has as many records as the run has made
\* attempts before, attempt - 1, whichever way those were rejected (by the
\* syntax check or by the scorer).
C4_HistoryLength ==
    \A r \in Runs :
        ( /\ pc[r] = "awaitGen"
          /\ \A i \in 1..Attempts(r) : kinds[r][i] \in Rejections ) =>
            /\ context[r].attempt = attempt[r]
            /\ HistoryLength(context[r]) = attempt[r] - 1

\* C5: when attempt n, below the ceiling, fails the syntax check, the
\* generator call of attempt n+1 is given a non-empty previousAttempts with
\* a record of n: its code and syntax result, and no verdict.
C5_SyntaxFailureRecorded ==
    \A r \in Runs :
        pc[r] = "awaitGen" /\ last[r].kind = "syntaxInvalid" =>
            /\ context[r].previousAttempts.present
            /\ \E i \in 1..HistoryLength(context[r]) :
                  LET rec == context[r].previousAttempts.items[i]
                  IN  /\ rec.attempt = attempt[r] - 1
                      /\ rec.code = last[r].code
                      /\ rec.syntaxValidation = last[r].syntaxValidation
                      /\ rec.reflectionResult = Undefined

\* C6: when the scorer rejects the syntax-valid attempt n, below the
\* ceiling, a record of n with its code, syntax result and verdict is
\* appended to the history, and the generator call of attempt n+1 sees it
\* in context.previousAttempts.
C6_AlignmentFailureRecorded ==
    \A r \in Runs :
        pc[r] = "awaitGen" /\ last[r].kind = "misaligned" =>
            LET seen == context[r].previousAttempts
                kept == previousAttempts[ContextObject(r)]
                rec == seen.items[Len(seen.items)]
            IN  /\ seen.present /\ seen.items # <<>>
                /\ kept = seen
                /\ rec.attempt = attempt[r] - 1
                /\ rec.code = last[r].code
                /\ rec.syntaxValidation = last[r].syntaxValidation
                /\ rec.syntaxValidation.isValid = TRUE
                /\ rec.reflectionResult = last[r].reflectionResult
                /\ rec.reflectionResult.addressesProblem = FALSE

\* the third generator call of a run, after two attempts the scorer rejected
C6_Witness ==
    \E r \in Runs :
        /\ pc[r] = "awaitGen" /\ attempt[r] = 3
        /\ kinds[r] = <<"misaligned", "misaligned">>
        /\ last[r].reflectionResult.issues # <<>>
        /\ last[r].reflectionResult.suggestions # <<>>

\* the options that break a precondition of execute
AllSpaces(str) == \A i \in 1..Len(str) : str[i] = " "
BadOptions(o) ==
    \/ o.problemStatement.type # "string"
    \/ AllSpaces(o.problemStatement.val)
    \/ o.language.type # "string"
    \/ ToLowerCase(o.language.val) \notin supportedLanguages
    \/ o.codeGenerator.type # "function"

\* C7: if problemStatement is missing, not text, empty or blank, or
\* language is missing or unsupported, or codeGenerator is not a function,
\* execute returns at once a result that is no Success and gives a reason,
\* and calls neither the generator, the syntax collaborator nor the scorer.
C7_BadInputRejected ==
    \A r \in Runs :
        pc[r] # "idle" /\ BadOptions(options[r]) =>
            /\ Done(r)
            /\ result[r].state = "fulfilled"
            /\ ~IsSuccess(Value(r))
            /\ "error" \in DOMAIN Value(r) /\ Value(r).error # <<>>
            /\ generatorCalls[r] = 0
            /\ validatorCalls[r] = 0
            /\ scorerCalls[r] = 0

\* a call whose only fault is that codeGenerator is not a function
C7_Witness ==
    \E r \in Runs :
        /\ Done(r)
        /\ options[r].problemStatement = Str(<<"p">>)
        /\ options[r].language = Str(<<"J", "S">>)
        /\ options[r].codeGenerator = ObjectVal

\* the try block ended with a failure of the generation step
GenerationFailed(t) ==
    /\ t.kind = "threw"
    /\ t.msg[1] \in {"Code generation failed:",
                      "Code generator returned empty code"}

\* C8: if the generator throws, rejects or returns empty or non-text
\* output, the run goes on with the next attempt when attempts remain, and
\* on the final attempt returns a Failure whose reason holds that error; a
\* generator that fails on every attempt is called exactly N times.
C8_GenerationFailureHandled ==
    \A r \in Runs :
        GenerationFailed(last[r]) =>
            /\ Attempts(r) < ceiling[r] =>
                  /\ pc[r] = "awaitGen"
                  /\ attempt[r] = Attempts(r) + 1
                  /\ generatorCalls[r] = Attempts(r) + 1
            /\ Attempts(r) >= ceiling[r] =>
                  /\ Done(r) /\ result[r].state = "fulfilled"
                  /\ IsFailure(Value(r))
                  /\ Len(Value(r).error) > Len(last[r].msg)
                  /\ SubSeq(Value(r).error,
                            Len(Value(r).error) - Len(last[r].msg) + 1,
                            Len(Value(r).error)) = last[r].msg
                  /\ (\A i \in 1..Attempts(r) : kinds[r][i] = "threw") =>
                        generatorCalls[r] = ceiling[r]

\* a run of three attempts, the generator failing in each, now returned
C8_Witness ==
    \E r \in Runs :
        /\ Done(r) /\ GenerationFailed(last[r])
        /\ kinds[r] = <<"threw", "threw", "threw">>
        /\ validatorCalls[r] = 0

\* a result with the structure of a pipeline result
Structured(v) == "error" \in DOMAIN v \/ "success" \in DOMAIN v

C10_FailureCarriesLastAttempt ==
    \A r \in Runs :
        Done(r) /\ Attempts(r) >= 1 /\ ~IsSuccess(Value(r)) =>
            /\ "lastAttempt" \in DOMAIN Value(r)
            /\ Value(r).lastAttempt.attempt = Attempts(r)

\* the call passed validateInput
PassedValidation(r) == pc[r] # "idle" /\ validateInput(options[r]).isValid

\* C11: for every ceiling that setMaxAttempts accepts and whatever the
\* generator does, a run that passes input validation ends in one result
\* that is a Success or a Failure, never a null or absent one.
C11_SuccessOrFailure ==
    \A r \in Runs :
        Done(r) /\ PassedValidation(r) =>
            /\ result[r].state = "fulfilled"
            /\ IsSuccess(Value(r)) \/ IsFailure(Value(r))

\* the values that are not a positive number
NotPositiveNumber(v) ==
    \/ v.type # "number"
    \/ v.form = "nan"
    \/ v.num < 0
    \/ v.num = 0 /\ v.form = "int"

\* C12: a new pipeline has ceiling 3; setMaxAttempts(v) raises and leaves
\* the ceiling as it is when v is not a positive number, and otherwise the
\* ceiling becomes v, getStats().maxAttempts is v and the runs that follow
\* make at most v generator calls.
C12_SetMaxAttempts ==
    /\ maxRegenerationAttempts = Num(3)
    /\ [](\A v \in WideMaxAttemptsValues :
            LET call == setMaxAttempts(v, maxRegenerationAttempts)
            IN  IF NotPositiveNumber(v)
                THEN call.threw /\ call.value = maxRegenerationAttempts
                ELSE ~call.threw /\ call.value = v)
    /\ [][\A v \in WideMaxAttemptsValues :
            SetMaxAttempts(v) /\ ~NotPositiveNumber(v) =>
                getStats'.maxAttempts = v]_vars
    /\ [](\A r \in Runs :
            pc[r] # "idle" => IntLessEq(generatorCalls[r], maxRegenerationAttempts))

\* C13: a maxAttempts in the options of a run bounds the generator calls
\* of that run, and the bound is 3 when it is left out.
C13_OptionsMaxAttempts ==
    \A r \in Runs :
        pc[r] # "idle" /\ "maxAttempts" \in DOMAIN options[r] =>
            generatorCalls[r] <= IF options[r].maxAttempts = Undefined
                                 THEN 3 ELSE options[r].maxAttempts.num

\* C14: on Success metadata.attempts is the number of generator calls of
\* the run and the index of the accepted attempt, which is the last one:
\* 1 when the first output is accepted, 3 after a syntax failure and an
\* alignment failure.
C14_AttemptCount ==
    \A r \in Runs :
        Done(r) /\ IsSuccess(Value(r)) =>
            LET n == Value(r).metadata.attempts
            IN  /\ n = generatorCalls[r]
                /\ n = Attempts(r)
                /\ \A i \in 1..Attempts(r) : kinds[r][i] = "accepted" <=> i = n
                /\ kinds[r] = <<"accepted">> => n = 1
                /\ kinds[r] = <<"syntaxInvalid", "misaligned", "accepted">>
                       => n = 3

C14_Witness ==
    /\ Done(1) /\ IsSuccess(Value(1))
    /\ kinds[1] = <<"syntaxInvalid", "misaligned", "accepted">>
    /\ maxRegenerationAttempts = Num(3)

IsPrefix(s, t) == Len(s) <= Len(t) /\ SubSeq(t, 1, Len(s)) = s

\* the history the generator of run r is given
History(r) == previousAttempts[ContextObject(r)].items

\* C15: within a run the history given to a generator call is a prefix of
\* the history given to the next one, the records already in it stay as
\* they are, and the attempt indexes of the records strictly increase.
C15_AppendOnly ==
    /\ [][\A r \in Runs :
            pc[r] = "awaitGen" /\ pc'[r] = "awaitGen" =>
                /\ IsPrefix(context[r].previousAttempts.items,
                            context'[r].previousAttempts.items)
                /\ IsPrefix(History(r), History(r)')]_vars
    /\ [](\A r \in Runs :
            pc[r] = "awaitGen" =>
                \A i, j \in 1..Len(History(r)) :
                    i < j => History(r)[i].attempt < History(r)[j].attempt)

\* C16: the context of the k-th generator call of a run has attempt = k
\* and the problem statement and language given to execute.
C16_ContextFields ==
    \A r \in Runs :
        pc[r] = "awaitGen" =>
            /\ context[r].attempt = generatorCalls[r]
            /\ context[r].problemStatement = options[r].problemStatement
            /\ context[r].language = options[r].language

\* C17: execute leaves the caller's options and generatorContext objects
\* as they were, so a later run given the same generatorContext starts
\* with an empty history.
C17_NoSideEffect ==
    /\ [][/\ previousAttempts'[0] = previousAttempts[0]
          /\ \A r \in Runs : pc[r] # "idle" => options'[r] = options[r]]_vars
    /\ [](pc[2] = "awaitGen" /\ generatorCalls[2] = 1 =>
              context[2].previousAttempts.items = <<>>)

\* the code the generator of run r returns, trimmed
OwnCode(r) == generateCode(ConcGeneratorOutcome(r)).code

\* the attempts of run r that were pushed onto its history
Pushed(r) ==
    { i \in 1..Attempts(r) : kinds[r][i] = "misaligned" /\ i < attempt[r] }

\* what run r returns when it runs alone and its attempts end as in kinds[r]
Alone(r) ==
    CASE last[r].kind = "accepted" ->
             successResult(options[r], last[r], Attempts(r))
      [] last[r].kind = "misaligned" -> alignmentExhausted(last[r], Attempts(r))
      [] last[r].kind = "syntaxInvalid" -> syntaxExhausted(last[r], Attempts(r))
      [] OTHER -> errorExhausted(last[r])

\* C18: of two interleaved runs with different inputs each has its own
\* attempt counter, a history made of its own attempts only, and the
\* result that its own generator outputs give.
C18_RunsIndependent ==
    \A r \in Runs :
        pc[r] # "idle" =>
            /\ attempt[r] = Attempts(r) + (IF pc[r] = "awaitGen" THEN 1 ELSE 0)
            /\ Len(History(r)) = Cardinality(Pushed(r))
            /\ \A i \in 1..Len(History(r)) :
                  /\ History(r)[i].attempt \in Pushed(r)
                  /\ History(r)[i].code = OwnCode(r)
            /\ pc[r] = "awaitGen" =>
                  /\ context[r].previousAttempts.items = History(r)
                  /\ context[r].problemStatement = options[r].problemStatement
            /\ Done(r) =>
                  /\ Value(r) = Alone(r)
                  /\ last[r].code = OwnCode(r)

C18_Witness ==
    /\ pc[1] = "awaitGen" /\ pc[2] = "awaitGen"
    /\ kinds[1] = <<"misaligned">> /\ kinds[2] = <<"misaligned", "misaligned">>
    /\ Len(History(1)) = 1 /\ Len(History(2)) = 2

\* the attempts of run r, among the first n, whose kind is in ks
Among(r, n, ks) == { i \in 1..n : kinds[r][i] \in ks }

\* C19: a run has at most one generator call outstanding, and when the
\* call of attempt n+1 is made the call of attempt n has returned and its
\* syntax check and reflection, where run, are over.
C19_Sequential ==
    \A r \in Runs :
        pc[r] # "idle" =>
            LET outstanding == generatorCalls[r] - Attempts(r)
            IN  /\ outstanding = (IF pc[r] = "awaitGen" THEN 1 ELSE 0)
                /\ scorerCalls[r] =
                       Cardinality(Among(r, Attempts(r),
                                         {"misaligned", "accepted"}))
                /\ validatorCalls[r] >=
                       Cardinality(Among(r, Attempts(r),
                           {"syntaxInvalid", "misaligned", "accepted"}))
                /\ validatorCalls[r] <= Attempts(r)

C19_Witness ==
    /\ pc[1] = "awaitGen" /\ generatorCalls[1] = 3
    /\ kinds[1] = <<"misaligned", "syntaxInvalid">>
    /\ validatorCalls[1] = 2 /\ scorerCalls[1] = 1

\* a ratio between 0 and 1
InUnitInterval(q) == q.den > 0 /\ 0 <= q.num /\ q.num <= q.den

\* C20: whatever analyze is given, the four ratios it computes and the
\* confidence it returns are in [0,1]; when the analysis fails no ratio is
\* computed and the confidence is 0.
C20_Bounds ==
    analyzeResult # Undefined =>
        /\ ~LessThan(analyzeResult.confidence, Zero)
        /\ ~LessThan(NumberOf(1, 1), analyzeResult.confidence)
        /\ IF analyzeResult.analysis.completed
           THEN LET alignment == analyzeResult.analysis.alignment
                IN  /\ InUnitInterval(alignment.actionAlignment)
                    /\ InUnitInterval(alignment.entityAlignment)
                    /\ InUnitInterval(alignment.technologyAlignment)
                    /\ InUnitInterval(alignment.requirementAlignment)
           ELSE analyzeResult.confidence = Zero

C20_Witness ==
    /\ analyzeResult # Undefined
    /\ analyzeResult.analysis.completed
    /\ analyzeResult.analysis.alignment.actionAlignment = Ratio(2, 3)
    /\ analyzeResult.analysis.alignment.entityAlignment = Ratio(5, 5)
    /\ analyzeResult.analysis.alignment.technologyAlignment = Ratio(1, 1)
    /\ analyzeResult.analysis.alignment.requirementAlignment = Ratio(2, 3)
    /\ LessThan(NumberOf(83, 100), analyzeResult.confidence)
    /\ LessThan(analyzeResult.confidence, NumberOf(84, 100))

(***************************************************************************)
(* The verdicts of the scorer.                                             *)
(***************************************************************************)
\* what performSelfReflection can be given by analyze: the verdict analyze
\* returned, or an error raised before analyze returned
ReflectionOutcomes ==
    { [kind |-> "returns", msg |-> <<>>, result |-> analyzeResult],
      [kind |-> "raises", msg |-> <<"scorer crashed">>, result |-> Undefined] }

\* C21: every verdict that reaches the orchestrator, be it the verdict of a
\* completed analysis, the verdict of analyze's catch clause or the fallback
\* of performSelfReflection, has addressesProblem true exactly when its
\* confidence is at least 0.6.
C21_VerdictConsistent ==
    analyzeResult # Undefined =>
        \A sc \in ReflectionOutcomes :
            performSelfReflection(sc).addressesProblem
                <=> ~LessThan(performSelfReflection(sc).confidence,
                              NumberOf(6, 10))

C21_Witness ==
    /\ analyzeArgs # NoCall
    /\ analyzeArgs.generatedCode = Undefined
    /\ analyzeResult # Undefined
    /\ ~analyzeResult.analysis.completed
    /\ ~performSelfReflection(
            [kind |-> "returns", msg |-> <<>>, result |-> analyzeResult]
        ).addressesProblem

\* analyze was given strings and ran its analysis to the end
Completed ==
    /\ analyzeArgs # NoCall
    /\ analyzeArgs.originalProblem.type = "string"
    /\ analyzeArgs.generatedCode.type = "string"
    /\ analyzeResult # Undefined
    /\ analyzeResult.analysis.completed

Alignment == analyzeResult.analysis.alignment
Keywords == analyzeResult.analysis.problemKeywords

\* a ratio that is exactly 1
IsOne(q) == Quotient(q) = NumberOf(1, 1)

\* C22: when the problem statement holds no action, no entity, no
\* technology and no requirement clause, then whatever the code string and
\* the language, the four ratios are 1, the confidence is 1 and
\* addressesProblem is true.
C22_NothingRequired ==
    ( /\ analyzeArgs # NoCall
      /\ analyzeArgs.originalProblem.type = "string"
      /\ analyzeArgs.generatedCode.type = "string"
      /\ analyzeResult # Undefined
      /\ extractProblemKeywords(analyzeArgs.originalProblem.val)
             = [actions |-> <<>>, entities |-> <<>>, requirements |-> <<>>,
                technologies |-> <<>>, patterns |-> <<>>] )
    => /\ analyzeResult.analysis.completed
       /\ IsOne(Alignment.actionAlignment)
       /\ IsOne(Alignment.entityAlignment)
       /\ IsOne(Alignment.technologyAlignment)
       /\ IsOne(Alignment.requirementAlignment)
       /\ analyzeResult.confidence = NumberOf(1, 1)
       /\ analyzeResult.addressesProblem

C22_Witness ==
    /\ Completed
    /\ analyzeArgs.originalProblem = Str(PlainProblem)
    /\ analyzeArgs.generatedCode = Str(ThresholdCode)
    /\ analyzeArgs.language = Chars("css")
    /\ analyzeResult.addressesProblem
    /\ analyzeResult.confidence = NumberOf(1, 1)

\* the verdict of an analysis that did not run to its end
FailedAnalysis(v) ==
    v # Undefined /\ "analysis" \in DOMAIN v /\ ~v.analysis.completed

\* the shape of the verdict of the catch clause
SafeVerdict(v) ==
    /\ v.addressesProblem = FALSE
    /\ v.confidence = Zero
    /\ Len(v.issues) = 1
    /\ IsPrefix(Chars("Self-reflection analysis error: "), v.issues[1])
    /\ Len(v.issues[1]) > Len(Chars("Self-reflection analysis error: "))

\* C23: analyze never raises: an analysis that fails inside gives the
\* verdict addressesProblem = false, confidence = 0 and exactly one issue
\* that records the reason, and the orchestrator treats that verdict like
\* any rejection by the scorer: a retry with the attempt recorded while
\* attempts remain, the Failure with lastAttempt at the ceiling.
C23_AnalysisFailure ==
    /\ \A p \in { Undefined, NumberVal, Str(<<"p">>) } :
       \A c \in { Undefined, NumberVal, Str(<<"a">>) } :
           (p.type # "string" \/ c.type # "string") =>
               /\ FailedAnalysis(analyze(p, c, Chars("javascript")))
               /\ SafeVerdict(analyze(p, c, Chars("javascript")))
    /\ \A r \in Runs :
           FailedAnalysis(last[r].reflectionResult) =>
               /\ last[r].reflectionResult
                      = analyze(Undefined, Str(last[r].code),
                                options[r].language.val)
               /\ SafeVerdict(last[r].reflectionResult)
               /\ last[r].kind = "misaligned"
               /\ pc[r] \in {"awaitGen", "done"}
               /\ pc[r] = "awaitGen" =>
                      /\ attempt[r] <= ceiling[r]
                      /\ History(r) # <<>>
                      /\ History(r)[Len(History(r))].attempt = attempt[r] - 1
                      /\ History(r)[Len(History(r))].reflectionResult
                             = last[r].reflectionResult
               /\ Done(r) =>
                      /\ IsFailure(Value(r))
                      /\ Attempts(r) = ceiling[r]
                      /\ Value(r) = alignmentExhausted(last[r], ceiling[r])

\* a run of two attempts that ends at its ceiling on a failed analysis,
\* after a first attempt that a failed analysis sent to a retry
C23_Witness ==
    /\ Done(1) /\ ceiling[1] = 2
    /\ kinds[1] = <<"misaligned", "misaligned">>
    /\ FailedAnalysis(last[1].reflectionResult)
    /\ History(1) # <<>>
    /\ FailedAnalysis(History(1)[1].reflectionResult)
    /\ Value(1).lastAttempt.reflectionResult.issues
           = << Chars("Self-reflection analysis error: ")
                \o Chars("Cannot read properties of undefined (reading 'toLowerCase')") >>

\* C24: when the validator raises, nothing is propagated: the attempt is a
\* syntax failure whose result is isValid = false, errors = one message,
\* warnings = none; the scorer is not called in that attempt; the run
\* retries while attempts remain, and at the ceiling returns the Failure
\* whose lastAttempt carries that result.
C24_ValidatorRaises ==
    \A r \in Runs :
        last[r].validatorRaised =>
            /\ last[r].kind = "syntaxInvalid"
            /\ last[r].syntaxValidation = ValidationError(<<"parser crashed">>)
            /\ Len(last[r].syntaxValidation.errors) = 1
            /\ last[r].syntaxValidation.warnings = <<>>
            /\ ~last[r].scorerCalled
            /\ last[r].reflectionResult = Undefined
            /\ pc[r] \in {"awaitGen", "done"}
            /\ pc[r] = "awaitGen" =>
                   /\ attempt[r] <= ceiling[r]
                   /\ generatorCalls[r] = Attempts(r) + 1
            /\ Done(r) =>
                   /\ Attempts(r) = ceiling[r]
                   /\ Value(r) = syntaxExhausted(last[r], ceiling[r])
                   /\ Value(r).lastAttempt.syntaxValidation
                          = ValidationError(<<"parser crashed">>)

\* a validator that raises in each of three attempts, the scorer never called
C24_Witness ==
    /\ Done(1) /\ ceiling[1] = 3 /\ Attempts(1) = 3
    /\ last[1].validatorRaised
    /\ validatorCalls[1] = 3 /\ scorerCalls[1] = 0
    /\ IsFailure(Value(1))
    /\ Value(1).lastAttempt.syntaxValidation.errors
           = << <<"Validation error:", "parser crashed">> >>

\* the generator call of the last attempt of run r returned a text that is
\* not empty once trimmed
ReturnedText(r) ==
    /\ last[r].generatorOutcome # Undefined
    /\ last[r].generatorOutcome.kind = "returns"
    /\ last[r].generatorOutcome.val.type = "string"
    /\ Trim(last[r].generatorOutcome.val.val) # <<>>

\* C25: in every attempt the steps are gated in order: the validator is
\* called only on a non-empty text that the generator returned in that
\* attempt, the scorer only after the validator found that text valid, and
\* so never in an attempt whose generation failed or whose syntax is invalid.
C25_Gated ==
    \A r \in Runs :
        /\ last[r].validatorCalled =>
               /\ ReturnedText(r)
               /\ validatorCalls[r] <= generatorCalls[r]
        /\ last[r].scorerCalled =>
               /\ last[r].validatorCalled
               /\ last[r].syntaxValidation # Undefined
               /\ last[r].syntaxValidation.isValid
               /\ last[r].code = Trim(last[r].generatorOutcome.val.val)
               /\ scorerCalls[r] <= validatorCalls[r]
        /\ ( /\ last[r].kind # "none"
             /\ \/ ~ReturnedText(r)
                \/ last[r].syntaxValidation = Undefined
                \/ ~last[r].syntaxValidation.isValid ) =>
               ~last[r].scorerCalled

\* three attempts: the validator was called in two of them and the scorer
\* in one
C25_Witness ==
    /\ Attempts(1) = 3 /\ generatorCalls[1] = 3
    /\ validatorCalls[1] = 2 /\ scorerCalls[1] = 1
    /\ last[1].scorerCalled /\ ReturnedText(1)

\* 3 * a + 3 * e + 2 * t + 2 * r >= 6 for the four ratios, in integers
WeightedAtLeastSix(a, e, t, r) ==
    3 * a.num * e.den * t.den * r.den
    + 3 * e.num * a.den * t.den * r.den
    + 2 * t.num * a.den * e.den * r.den
    + 2 * r.num * a.den * e.den * t.den
        >= 6 * a.den * e.den * t.den * r.den

\* C26: for a completed analysis the confidence is 0.3 * actionAlignment
\* + 0.3 * entityAlignment + 0.2 * technologyAlignment
\* + 0.2 * requirementAlignment clamped to [0,1], hence the attempt is
\* accepted exactly when 3a + 3e + 2t + 2r >= 6 for the four ratios.
C26_WeightedSum ==
    Completed =>
        ( analyzeResult.addressesProblem
            <=> WeightedAtLeastSix(Alignment.actionAlignment,
                                   Alignment.entityAlignment,
                                   Alignment.technologyAlignment,
                                   Alignment.requirementAlignment) )

\* C27: requirementAlignment is 1 when the problem has no requirement
\* clause, and otherwise the number of fulfilled clauses over the number of
\* clauses, a clause being fulfilled exactly when, of its words longer than 3
\* characters, those that occur in the lower-cased code are at least half
\* (so also a clause without any word longer than 3 characters).
C27_RequirementRatio ==
    Completed =>
        LET codeText == ToLowerCase(analyzeArgs.generatedCode.val)
            Long(word) == Len(word) > 3
            InCode(word) == Includes(codeText, word)
            ClauseFulfilled(clause) ==
                2 * Len(SelectSeq(SelectSeq(Split(clause, " "), Long), InCode))
                    >= Len(SelectSeq(Split(clause, " "), Long))
        IN  Alignment.requirementAlignment
                = IF Keywords.requirements = <<>> THEN Ratio(1, 1)
                  ELSE Ratio(Len(SelectSeq(Keywords.requirements, ClauseFulfilled)),
                             Len(Keywords.requirements))

\* C28: a verdict of a completed analysis with addressesProblem = false
\* carries at least one issue: whenever the confidence is below 0.6, one of
\* the conditions of identifyIssues holds (action or entity alignment below
\* 0.5, technology alignment below 0.3, requirement alignment below 0.4,
\* more than 3 missing elements).
C28_RejectionHasIssue ==
    (Completed /\ ~analyzeResult.addressesProblem) =>
        /\ analyzeResult.issues # <<>>
        /\ \/ RatioLess(Alignment.actionAlignment, 1, 2)
           \/ RatioLess(Alignment.entityAlignment, 1, 2)
           \/ RatioLess(Alignment.technologyAlignment, 3, 10)
           \/ RatioLess(Alignment.requirementAlignment, 2, 5)
           \/ Len(Alignment.missingElements) > 3

\* C29: the ceiling that governs a run is the one in force when it
\* started (ceiling[r]), whatever setMaxAttempts is given while the run is
\* suspended in its generator: the run makes no attempt beyond that
\* ceiling, and its Failure neither reports a lastAttempt.attempt above it
\* nor comes before the attempt that reaches it.
C29_CeilingAtStart ==
    \A r \in Runs :
        pc[r] # "idle" /\ validateInput(options[r]).isValid =>
            /\ attempt[r] <= ceiling[r]
            /\ generatorCalls[r] <= ceiling[r]
            /\ (Done(r) /\ IsFailure(Value(r))) =>
                   /\ Attempts(r) = ceiling[r]
                   /\ "lastAttempt" \in DOMAIN Value(r) =>
                          Value(r).lastAttempt.attempt <= ceiling[r]

\* the languages whose feature scan is not the JavaScript one
MarkupLanguages == { Chars("html"), Chars("css"), Chars("solidity") }

\* C30: for language html, css or solidity the feature scan fills neither
\* the frameworks nor the imports, so whenever the problem names at least
\* one technology, technologyAlignment is 0 and the confidence is at most
\* 0.8, whatever the code contains.
C30_NoTechnologyOutsideJs ==
    (Completed /\ analyzeArgs.language \in MarkupLanguages) =>
        /\ analyzeResult.analysis.codeFeatures.frameworks = <<>>
        /\ analyzeResult.analysis.codeFeatures.imports = <<>>
        /\ Keywords.technologies # <<>> =>
               /\ Alignment.technologyAlignment.num = 0
               /\ Quotient(Alignment.technologyAlignment) = Zero
               /\ ~LessThan(NumberOf(8, 10), analyzeResult.confidence)

\* an html, css or solidity call whose code imports the very technology
\* the problem names
C30_Witness ==
    /\ Completed
    /\ analyzeArgs.language \in MarkupLanguages
    /\ \E k \in 1..Len(Keywords.technologies) :
            /\ Keywords.technologies[k] = Chars("react")
            /\ Includes(ToLowerCase(analyzeArgs.generatedCode.val),
                        Keywords.technologies[k])
    /\ ImportEnd(analyzeArgs.generatedCode.val, 1) # 0
    /\ Alignment.technologyAlignment.num = 0

====
